---- MODULE Spec2Model ----
(***************************************************************************)
(* A model of gsee: sun geometry (gsee/trigon.py), the PV plant model      *)
(* (gsee/pv.py) and the resampling pipeline of the climate-data interface  *)
(* (gsee/climatedata_interface/pre_gsee_processing.py).                    *)
(*                                                                         *)
(* Numbers.  A Python float is a record [nan, v]: nan says the value is    *)
(* NaN, v is the value otherwise.  Irradiances are whole W/m2.  Angles are *)
(* whole degrees (pi is 180).  Sines and cosines are fixed-point numbers   *)
(* scaled by Scale (100 is 1.0).  Durations are seconds (the code's        *)
(* minutes times 60), times of day are seconds since the first midnight of *)
(* the series.  Values the ephem library computes (rise and set times,     *)
(* sun altitude and azimuth) are inputs chosen from small sets.            *)
(***************************************************************************)
EXTENDS Integers, Sequences, FiniteSets, TLC

(***************************************************************************)
(* Bounds of the model.                                                    *)
(***************************************************************************)
MaxRows == 2

(***************************************************************************)
(* Floats with NaN.                                                        *)
(***************************************************************************)
\* the fixed-point value of 1.0, and a stand-in for 1 / np.cos(np.pi / 2)
\* (np.cos(np.pi / 2) is 6.1e-17, never exactly 0)
Scale == 10 * 10
Huge == 10000 * Scale

F(x) == [nan |-> FALSE, v |-> x]
NaN == [nan |-> TRUE, v |-> 0]

Abs(x) == IF x < 0 THEN -x ELSE x
Sign(x) == IF x < 0 THEN -1 ELSE IF x > 0 THEN 1 ELSE 0

FAdd(a, b) == IF a.nan \/ b.nan THEN NaN ELSE F(a.v + b.v)
FSub(a, b) == IF a.nan \/ b.nan THEN NaN ELSE F(a.v - b.v)
\* a times the fixed-point factor c
FScale(a, c) == IF a.nan \/ c.nan THEN NaN ELSE F((a.v * c.v) \div Scale)
\* pandas Series.fillna(0)
fillna0(a) == IF a.nan THEN F(0) ELSE a
\* pandas Series.clip(lower=0): NaN stays NaN
clip_lower0(a) == IF a.nan THEN a ELSE IF a.v < 0 THEN F(0) ELSE a

(***************************************************************************)
(* Trigonometry on whole degrees, values scaled by Scale.                  *)
(***************************************************************************)
SinTable ==
  << 0, 2, 3, 5, 7, 9, 10, 12, 14, 16, 17, 19, 21, 22, 24, 26, 28, 29, 31, 33, 34,
     36, 37, 39, 41, 42, 44, 45, 47, 48, 50, 52, 53, 54, 56, 57, 59, 60, 62, 63, 64,
     66, 67, 68, 69, 71, 72, 73, 74, 75, 77, 78, 79, 80, 81, 82, 83, 84, 85, 86, 87,
     87, 88, 89, 90, 91, 91, 92, 93, 93, 94, 95, 95, 96, 96, 97, 97, 97, 98, 98, 98,
     99, 99, 99, 99, 100, 100, 100, 100, 100, 100 >>

Sin100(d) ==
  LET r == d % 360
  IN  IF r <= 90 THEN SinTable[r + 1]
      ELSE IF r <= 180 THEN SinTable[180 - r + 1]
      ELSE IF r <= 270 THEN -SinTable[r - 180 + 1]
      ELSE -SinTable[360 - r + 1]

Cos100(d) == Sin100(d + 90)

\* np.sin, np.cos of a float angle
npsin(a) == IF a.nan THEN NaN ELSE F(Sin100(a.v))
npcos(a) == IF a.nan THEN NaN ELSE F(Cos100(a.v))

\* np.arccos: NaN outside [-1, 1], else the angle in 0..180 whose cosine is x
nparccos(x) ==
  IF x.nan \/ x.v > Scale \/ x.v < -Scale THEN NaN
  ELSE F(Cardinality({e \in 0..179 : Cos100(e) > x.v}))

\* np.sqrt of a fixed-point number: NaN below 0
npsqrt(x) ==
  IF x.nan \/ x.v < 0 THEN NaN
  ELSE F(Cardinality({k \in 1..(2 * Scale) : k * k <= x.v * Scale}))

\* np.arctan(n / d) of two fixed-point numbers, the division as numpy does it:
\* 0/0 is NaN, x/0 is +-inf and arctan(+-inf) is +-90 degrees
nparctan_ratio(n, d) ==
  IF n.nan \/ d.nan THEN NaN
  ELSE IF d.v = 0 THEN (IF n.v = 0 THEN NaN ELSE F(90 * Sign(n.v)))
  ELSE F(Sign(n.v) * Sign(d.v)
         * Cardinality({e \in 1..89 : Sin100(e) * Abs(d.v) <= Cos100(e) * Abs(n.v)}))

(***************************************************************************)
(* Times.  None is the empty tuple, a present value a 1-tuple.             *)
(***************************************************************************)
None == << >>
Some(x) == << x >>
IsNone(o) == o = << >>
Get(o) == o[1]

Day == 24 * 3600
date(t) == t \div Day
hour(t) == (t % Day) \div 3600
minute(t) == (t % 3600) \div 60
second(t) == t % 60

hms(h, m, sec) == h * 3600 + m * 60 + sec

(***************************************************************************)
(* sun_angles (gsee/trigon.py).                                            *)
(***************************************************************************)
VARIABLES
  sa_pc,               \* where sun_angles is: start, loop, substeps, frame, done, raised
  datetime_index,      \* the timestamps passed
  index_tz,            \* the timezone of datetime_index: UTC, naive, other
  rise_set_times,      \* None, or the table date -> <<rise, set>>
  irradiance_type,     \* instantaneous, cumulative
  subres_steps,        \* 0 is None
  index,               \* the loop's position in datetime_index (from 1)
  alts, azims, durations, one_over_cos_zenith,
  sun_alt, sun_azimuth, tmp_one_over_cos,    \* the loop body's locals
  obs_dates,           \* per row, the instants the sun position was evaluated at
  sa_df,               \* the frame returned
  sa_error             \* the exception raised, or "none"

saVars == << sa_pc, datetime_index, index_tz, rise_set_times, irradiance_type,
             subres_steps, index, alts, azims, durations, one_over_cos_zenith,
             sun_alt, sun_azimuth, tmp_one_over_cos, obs_dates, sa_df, sa_error >>

(***************************************************************************)
(* State of aperture_irradiance (gsee/trigon.py) and of run_model          *)
(* (gsee/pv.py), followed at one timestamp of the series: every operation  *)
(* of the two on the series is elementwise.                                *)
(***************************************************************************)
VARIABLES
  entry,               \* the function the caller entered: run_model, aperture_irradiance
  ap_pc,               \* idle, start, rise_set, sun_angles, dni, incidence, plane, done, raised
  direct, diffuse,     \* direct and diffuse horizontal irradiance
  coords,              \* the latitude, coords[0]
  tilt, azimuth,       \* in the unit of the trigonometry (pi is 180)
  tracking, albedo, dni_only,
  angles,              \* None or the row of the sun-angle frame
  ap_irradiance_type,
  dni, incidence, panel_tilt,
  ap_result,           \* what aperture_irradiance returned
  ap_error,            \* the exception it raised, or "none"
  trace,               \* the computations performed so far, in order
  rm_pc,               \* idle, start, split, aperture, panel, inverter, done, raised
  data,                \* global_horizontal and diffuse_fraction of the row
  system_loss,         \* fixed-point
  rm_args,             \* tilt, azim (degrees), tracking, angles, irradiance_type of run_model
  rm_error

apVars == << entry, ap_pc, direct, diffuse, coords, tilt, azimuth, tracking, albedo,
             dni_only, angles, ap_irradiance_type, dni, incidence, panel_tilt,
             ap_result, ap_error, trace >>
rmVars == << rm_pc, data, system_loss, rm_args, rm_error >>

(***************************************************************************)
(* State of convert_to_durinal and of _resample_with_pdfs                  *)
(* (gsee/climatedata_interface/pre_gsee_processing.py).                    *)
(***************************************************************************)
VARIABLES
  dn_pc,               \* idle, start, upsample, sinus, correct, done
  dn_data,             \* the daily frame: day -> its columns
  dn_has_rise_set,     \* 'rise_set' in data
  dn_factor,           \* factor
  dn_daily,            \* the hourly frame: hour of the series -> its columns
  pf_pc,               \* idle, row, month, renorm, done
  pf_frequency,        \* M, S, A
  pf_df,               \* the rows of df: year, month, global_horizontal
  ds_pdfs,             \* month -> xk, pk
  pf_j,                \* the position of the loop over df.iterrows() (from 1)
  pf_months,           \* the months of the row still to draw
  rand_days_list,      \* the days drawn for the row so far
  any_rand_days,       \* per row, any(rand_days_list) before the renormalisation
  time_index,          \* per row, the start date and the periods of its date_range
  df_all               \* per row, the global_horizontal column of df_pdf

dnVars == << dn_pc, dn_data, dn_has_rise_set, dn_factor, dn_daily >>
pfVars == << pf_pc, pf_frequency, pf_df, ds_pdfs, pf_j, pf_months, rand_days_list,
             any_rand_days, time_index, df_all >>

(***************************************************************************)
(* State of a call of decimal_hours (pre_gsee_processing.py).              *)
(***************************************************************************)
VARIABLES
  dh_pc,               \* idle, start, done, raised
  dh_timeobject,       \* None or the time
  dh_rise_or_set,      \* sunrise, sunset, or any other string
  dh_ret               \* the value returned, in thousandths of an hour

dhVars == << dh_pc, dh_timeobject, dh_rise_or_set, dh_ret >>

\* The panel and inverter stage of run_model (gsee/pv.py).  Powers are whole W.
VARIABLES
  capacity,            \* installed capacity
  technology,          \* csi, cis, cdte
  temperature,         \* None, or the value of data['temperature'] in degC
  inverter_capacity,   \* None or the capacity passed
  use_inverter,
  dc_out,              \* the panel output clipped to capacity
  ac_out,              \* the inverter's output, before system_loss
  ac_out_final         \* what run_model returns

pnVars == << capacity, technology, temperature, inverter_capacity, use_inverter,
             dc_out, ac_out, ac_out_final >>

\* brl_model.run (gsee/brl_model.py).  Clearness indices and the angles of
\* ephem (radians) are in hundredths, diffuse fractions in thousandths.
VARIABLES
  br_pc,               \* idle, start, day, hour, extend, done, raised
  hourly_clearness,    \* the series of hourly clearness indices
  br_rise_set_times,   \* None, or the list of pairs <<sunrise, sunset>> passed
  br_caller,           \* who calls run: "direct", or add_kd_run_gsee
  br_day_pairs,        \* per calendar day of the series, its <<sunrise, sunset>>
  br_sunrise, br_sunset,   \* the pair run takes for the day at hand
  sun_altitude,        \* sun.alt after the latest sun.compute(obs)
  alphas,              \* per hour of the series, the altitude that entered pwr, if any
  br_offset,           \* the solar time at 00:00 UTC, in hours (the longitude)
  br_i,                \* the loop variable i of run
  ks,                  \* the day's slice of hourly_clearness
  alpha,               \* sun.alt at the day's hour 0
  k_day,               \* the mean of ks
  br_hour,             \* the loop variable hour of _daily_diffuse
  values,              \* the day's diffuse fractions so far
  psis,                \* per hour of the series, what psi(hour, ks) returned, if called
  diffuse_fractions,   \* the list run builds
  br_error             \* the exception raised, or "none"

brVars == << br_pc, hourly_clearness, br_rise_set_times, br_caller, br_day_pairs,
             br_sunrise, br_sunset, sun_altitude, alphas, br_offset, br_i, ks, alpha,
             k_day, br_hour, values, psis, diffuse_fractions, br_error >>

(***************************************************************************)
(* State of the helpers of gsee/climatedata_interface/interface.py, each   *)
(* called once: _detect_frequency and _mod_time_dim.  A timestamp here is  *)
(* a record of year, month, day, hour and minute.                          *)
(***************************************************************************)
VARIABLES
  df_pc,               \* idle, start, done, raised
  attrs_frequency,     \* ds.attrs['frequency'], None when the key is missing
  inferred_freq,       \* what pandas infers from the time axis: None, an alias, or it raises
  in_freq,             \* the frequency the user gave
  df_ret,              \* None, or the value returned
  df_error,            \* the exception raised, or "none"
  mt_pc,               \* idle, start, done
  time_dim,            \* the timestamps passed
  mt_freq,             \* the data frequency passed
  mt_ret               \* what _mod_time_dim returned: None, or the timestamps

dfVars == << df_pc, attrs_frequency, inferred_freq, in_freq, df_ret, df_error >>
mtVars == << mt_pc, time_dim, mt_freq, mt_ret >>

(***************************************************************************)
(* State of the grid-cell tasks: resample_for_gsee                         *)
(* (gsee/climatedata_interface/pre_gsee_processing.py) called once per     *)
(* grid cell, task i for the i-th cell, all with the same shared lists.    *)
(* Cells and slots are counted from 1.                                     *)
(***************************************************************************)
VARIABLES
  cl_mode,             \* idle; sequential: one call after the other on one params
                       \* object; parallel: process workers, each call on its copy
  cl_frequency,        \* the frequency passed to every call
  has_diffuse_fraction,    \* the datasets carry a diffuse_fraction variable
  with_pdfs,           \* ds_pdfs is passed
  cell_lats,           \* per cell, coords[0]
  tilt_arg,            \* params['tilt'] as the caller set it
  params_tilt,         \* params['tilt'] of the caller's params object, now
  task_pc,             \* per task: wait, called, computed, returning, done
  task_tilt,           \* per task, params['tilt'] after lines 110-111
  task_pv,             \* per task, None or the pv computed
  shr_mem,             \* the shared result list
  prog_mem,            \* the shared progress list
  shr_writes           \* the item assignments made to shr_mem: << task, slot >>

clVars == << cl_mode, cl_frequency, has_diffuse_fraction, with_pdfs, cell_lats,
             tilt_arg, params_tilt, task_pc, task_tilt, task_pv, shr_mem, prog_mem,
             shr_writes >>

(***************************************************************************)
(* State of run_interface_from_dataset                                     *)
(* (gsee/climatedata_interface/interface.py).                              *)
(***************************************************************************)
VARIABLES
  ri_pc,               \* idle, start, cells, returned, raised
  ds_time,             \* the time coordinate of the caller's dataset ds, now
  ttime,               \* the copy of the time values taken on entry
  params_data_freq,    \* params['data_freq']
  use_pdfs,
  num_cores,
  coord_list,          \* the grid cells, numbered from 1
  ri_called,           \* the cells whose call has been made
  ri_shr_mem,          \* the shared result list of this call
  ri_raised,           \* 0, or the cell whose computation raised
  ri_error,            \* the exception run_interface_from_dataset raised, or "none"
  ds_pv                \* None, or the dataset returned: its time and its cells

riVars == << ri_pc, ds_time, ttime, params_data_freq, use_pdfs, num_cores, coord_list,
             ri_called, ri_shr_mem, ri_raised, ri_error, ds_pv >>

itfVars == << dfVars, mtVars, clVars, riVars >>

\* the components added after the first five
moreVars == << dhVars, pnVars, brVars, itfVars >>

vars == << saVars, apVars, rmVars, dnVars, pfVars, moreVars >>

\* What each component leaves alone.
saOthers == << apVars, rmVars, dnVars, pfVars, moreVars >>
apOthers == << saVars, dnVars, pfVars, moreVars >>
dnOthers == << saVars, apVars, rmVars, pfVars, moreVars >>
pfOthers == << saVars, apVars, rmVars, dnVars, moreVars >>
dhOthers == << saVars, apVars, rmVars, dnVars, pfVars, pnVars, brVars, itfVars >>
brOthers == << saVars, apVars, rmVars, dnVars, pfVars, dhVars, pnVars, itfVars >>
itfOthers == << saVars, apVars, rmVars, dnVars, pfVars, dhVars, pnVars, brVars >>

NoResult == [kind |-> "none", dni |-> NaN, direct |-> NaN, diffuse |-> NaN]
NoAngles == [sun_alt |-> 0, sun_azimuth |-> 0, duration |-> 0, sun_zenith |-> 0,
             timestepmean_one_over_cos_sun_zenith |-> NaN]

\* The state of a component that is not running.
SaIdle ==
  /\ sa_pc = "idle" /\ datetime_index = << >> /\ index_tz = "UTC"
  /\ rise_set_times = None /\ irradiance_type = "instantaneous"
  /\ subres_steps = 0 /\ index = 1
  /\ alts = << >> /\ azims = << >> /\ durations = << >>
  /\ one_over_cos_zenith = << >>
  /\ sun_alt = 0 /\ sun_azimuth = 0 /\ tmp_one_over_cos = << >>
  /\ obs_dates = << >> /\ sa_df = << >> /\ sa_error = "none"

ApIdle ==
  /\ entry = "none" /\ ap_pc = "idle"
  /\ direct = NaN /\ diffuse = NaN /\ coords = 0 /\ tilt = 0 /\ azimuth = 0
  /\ tracking = 0 /\ albedo = 0 /\ dni_only = FALSE /\ angles = None
  /\ ap_irradiance_type = "instantaneous"
  /\ dni = NaN /\ incidence = NaN /\ panel_tilt = NaN
  /\ ap_result = NoResult /\ ap_error = "none" /\ trace = << >>

RmIdle ==
  /\ rm_pc = "idle" /\ data = [global_horizontal |-> NaN, diffuse_fraction |-> NaN]
  /\ system_loss = 0
  /\ rm_args = [tilt |-> 0, azim |-> 0, tracking |-> 0, angles |-> None,
                irradiance_type |-> "instantaneous"]
  /\ rm_error = "none"

DnIdle ==
  /\ dn_pc = "idle" /\ dn_data = << >> /\ dn_has_rise_set = FALSE
  /\ dn_factor = 1 /\ dn_daily = << >>

DhIdle ==
  /\ dh_pc = "idle" /\ dh_timeobject = None /\ dh_rise_or_set = "sunrise" /\ dh_ret = 0

PnIdle ==
  /\ capacity = 0 /\ technology = "csi" /\ temperature = None
  /\ inverter_capacity = None /\ use_inverter = FALSE
  /\ dc_out = 0 /\ ac_out = 0 /\ ac_out_final = 0

BrIdle ==
  /\ br_pc = "idle" /\ hourly_clearness = << >> /\ br_rise_set_times = None
  /\ br_caller = "direct" /\ br_day_pairs = << >>
  /\ br_sunrise = None /\ br_sunset = None /\ sun_altitude = 0 /\ alphas = << >>
  /\ br_offset = 0 /\ br_i = 0 /\ ks = << >> /\ alpha = 0 /\ k_day = NaN
  /\ br_hour = 0 /\ values = << >> /\ psis = << >> /\ diffuse_fractions = << >>
  /\ br_error = "none"

DfIdle ==
  /\ df_pc = "idle" /\ attrs_frequency = None /\ inferred_freq = None
  /\ in_freq = "detect" /\ df_ret = None /\ df_error = "none"

MtIdle ==
  /\ mt_pc = "idle" /\ time_dim = << >> /\ mt_freq = "D" /\ mt_ret = None

ClIdle ==
  /\ cl_mode = "idle" /\ cl_frequency = "D" /\ has_diffuse_fraction = FALSE
  /\ with_pdfs = FALSE /\ cell_lats = << >>
  /\ tilt_arg = [callable |-> FALSE, value |-> 0]
  /\ params_tilt = [callable |-> FALSE, value |-> 0]
  /\ task_pc = << >> /\ task_tilt = << >> /\ task_pv = << >>
  /\ shr_mem = << >> /\ prog_mem = << >> /\ shr_writes = << >>

RiIdle ==
  /\ ri_pc = "idle" /\ ds_time = None /\ ttime = << >> /\ params_data_freq = "D"
  /\ use_pdfs = FALSE /\ num_cores = 1 /\ coord_list = << >> /\ ri_called = {}
  /\ ri_shr_mem = << >> /\ ri_raised = 0 /\ ri_error = "none" /\ ds_pv = None

ItfIdle == DfIdle /\ MtIdle /\ ClIdle /\ RiIdle

MoreIdle == DhIdle /\ PnIdle /\ BrIdle /\ ItfIdle

PfIdle ==
  /\ pf_pc = "idle" /\ pf_frequency = "M" /\ pf_df = << >> /\ ds_pdfs = << >>
  /\ pf_j = 1 /\ pf_months = << >> /\ rand_days_list = << >>
  /\ any_rand_days = << >> /\ time_index = << >> /\ df_all = << >>

\* Inputs.
StartTimes == {hms(6, 0, 0), hms(17, 0, 0)}
Timesteps == {600, 3600}
RiseTimes == {None, Some(hms(6, 59, 30))}
SetTimes == {None, Some(hms(18, 0, 40)), Some(hms(6, 50, 0))}
SunAlts == {-1, 40}
SunAzims == {90, 180}
SubresSteps == {0, 1, 2, 3}
Timezones == {"UTC", "naive", "other"}

DatetimeIndex(start, step, n) == [i \in 1..n |-> start + (i - 1) * step]

\* The dates of an index: datetime_index.to_series().map(pd.Timestamp.date).unique()
Dates(dtindex) == {date(dtindex[i]) : i \in 1..Len(dtindex)}

\* sun_rise_set_times: one (rise, set) pair per date of the index, each time
\* computed by ephem or None
RiseSetTables(dtindex) == [Dates(dtindex) -> RiseTimes \X SetTimes]

\* np.mean of a list of numbers: NaN for the empty list
RECURSIVE SumSeq(_)
SumSeq(s) == IF s = << >> THEN 0 ELSE Head(s) + SumSeq(Tail(s))
npmean(s) == IF s = << >> THEN NaN ELSE F(SumSeq(s) \div Len(s))

\* np.linspace(-0.5, 0.5, n) * timestep, in seconds
linspace_offsets(n, ts) ==
  [k \in 1..n |-> IF n = 1 THEN -(ts \div 2)
                  ELSE -(ts \div 2) + ((k - 1) * ts) \div (n - 1)]

\* int(timestep / pd.Timedelta("0 days 00:15:00"))
default_subres_steps(ts) == ts \div 900

\* A variant of the instantaneous branch that evaluates the sunrise hour from
\* the start of the hour, as the sunset hour is.
instantaneous_case_from_hour_start(item, rise_time, set_time) ==
  IF ~IsNone(rise_time) /\ hour(item) = hour(Get(rise_time))
  THEN LET duration == 3600 - 60 * minute(Get(rise_time)) - second(Get(rise_time))
       IN  [branch |-> "sunrise", duration |-> duration,
            obs_date |-> item + duration \div 2]
  ELSE IF ~IsNone(set_time) /\ hour(item) = hour(Get(set_time))
  THEN LET duration == 60 * minute(Get(set_time)) + second(Get(set_time))
       IN  [branch |-> "sunset", duration |-> duration,
            obs_date |-> item + duration \div 2]
  ELSE [branch |-> "other", duration |-> 3600, obs_date |-> item + 1800]

\* The instantaneous branch of the loop body for one timestamp: the duration
\* and the instant the sun position is evaluated at.
instantaneous_case(item, rise_time, set_time) ==
  IF ~IsNone(rise_time) /\ hour(item) = hour(Get(rise_time))
  THEN LET duration == 3600 - 60 * minute(Get(rise_time)) - second(Get(rise_time))
       IN  [branch |-> "sunrise", duration |-> duration,
            obs_date |-> Get(rise_time) + duration \div 2]
  ELSE IF ~IsNone(set_time) /\ hour(item) = hour(Get(set_time))
  THEN LET duration == 60 * minute(Get(set_time)) + second(Get(set_time))
       IN  [branch |-> "sunset", duration |-> duration,
            obs_date |-> item + duration \div 2]
  ELSE [branch |-> "other", duration |-> 3600, obs_date |-> item + 1800]

\* The altitudes _sun_alt_azim can return at the evaluation instant.  The rise
\* and set times are those of the sun's upper limb (use_center=False), the
\* altitude is that of its centre: in the sunrise and the sunset hour the
\* centre is still below the horizon when the instant lies within a minute of
\* the rise or set time, that is when the lit part lasts two minutes at most.
ephem_alts(c) ==
  IF c.branch = "other" \/ c.duration <= 120
  THEN SunAlts
  ELSE {a \in SunAlts : a >= 0}

\* The row the instantaneous branch appends, given the altitude and azimuth
\* ephem returns at the evaluation instant.
instantaneous_row(item, rise_time, set_time, alt, az) ==
  LET c == instantaneous_case(item, rise_time, set_time)
  IN  IF c.branch = "other" /\ alt < 0
      THEN [sun_alt |-> 0, sun_azimuth |-> 0, duration |-> 0]
      ELSE [sun_alt |-> alt, sun_azimuth |-> az, duration |-> c.duration]

\* One sub-step's entry of tmp_one_over_cos: 0 when the zenith exceeds 89
\* degrees, else 1 / cos(zenith), scaled.
one_over_cos(alt) ==
  LET tmp_zenith == 90 - alt
  IN  IF tmp_zenith > 89 THEN 0 ELSE (Scale * Scale) \div Cos100(tmp_zenith)

\* Lines 160-163: the step mean of tmp_one_over_cos; a mean of 0 zeroes the
\* azimuth and the altitude, which else are the loop's last values.
cumulative_close(alt, az, tmp) ==
  LET mean == npmean(tmp)
      zero == ~mean.nan /\ mean.v = 0
  IN  [sun_alt |-> IF zero THEN 0 ELSE alt,
       sun_azimuth |-> IF zero THEN 0 ELSE az,
       mean |-> mean]

\* The frame built after the loop.
instantaneous_frame(a, z, d) ==
  [i \in 1..Len(a) |->
     [sun_alt |-> IF a[i] < 0 THEN 0 ELSE a[i],
      sun_azimuth |-> z[i],
      duration |-> d[i],
      sun_zenith |-> 90 - a[i]]]

cumulative_frame(a, z, o) ==
  [i \in 1..Len(a) |->
     [sun_azimuth |-> z[i],
      sun_alt |-> a[i],
      timestepmean_one_over_cos_sun_zenith |-> o[i]]]

SaInit ==
  /\ sa_pc = "start"
  /\ irradiance_type \in {"instantaneous", "cumulative"}
  /\ index_tz \in Timezones
  /\ \E start \in StartTimes, n \in 1..MaxRows, ts \in Timesteps :
       /\ irradiance_type = "instantaneous" => ts = 3600
       /\ irradiance_type = "cumulative" => start = hms(17, 0, 0)
       /\ datetime_index = DatetimeIndex(start, ts, n)
  /\ \/ rise_set_times = None
     \/ rise_set_times \in {Some(t) : t \in RiseSetTables(datetime_index)}
  /\ subres_steps \in SubresSteps
  /\ irradiance_type = "instantaneous" => subres_steps = 0
  /\ index = 1
  /\ alts = << >> /\ azims = << >> /\ durations = << >>
  /\ one_over_cos_zenith = << >>
  /\ sun_alt = 0 /\ sun_azimuth = 0 /\ tmp_one_over_cos = << >>
  /\ obs_dates = << >>
  /\ sa_df = << >>
  /\ sa_error = "none"
  /\ ApIdle /\ RmIdle /\ DnIdle /\ PfIdle /\ MoreIdle

\* Lines 98-106: the ephem objects are set up and the rise/set table is
\* computed when none was passed.  The timezone of the index is not looked at.
SunAnglesBegin ==
  /\ UNCHANGED saOthers
  /\ sa_pc = "start"
  /\ IF IsNone(rise_set_times)
     THEN \E t \in RiseSetTables(datetime_index) : rise_set_times' = Some(t)
     ELSE UNCHANGED rise_set_times
  /\ sa_pc' = IF Len(datetime_index) >= index THEN "loop" ELSE "frame"
  /\ UNCHANGED << datetime_index, index_tz, irradiance_type, subres_steps, index,
                  alts, azims, durations, one_over_cos_zenith, sun_alt,
                  sun_azimuth, tmp_one_over_cos, obs_dates, sa_df, sa_error >>

AfterRow == IF index + 1 > Len(datetime_index) THEN "frame" ELSE "loop"

\* Lines 114-137 and 165-166: one pass of the loop in instantaneous mode.
LoopInstantaneous ==
  /\ UNCHANGED saOthers
  /\ sa_pc = "loop" /\ irradiance_type = "instantaneous"
  /\ LET item == datetime_index[index]
         rs == Get(rise_set_times)[date(item)]
         c == instantaneous_case(item, rs[1], rs[2])
     IN  \E alt \in ephem_alts(c), az \in SunAzims :
           LET row == instantaneous_row(item, rs[1], rs[2], alt, az)
           IN  /\ sun_alt' = row.sun_alt
               /\ sun_azimuth' = row.sun_azimuth
               /\ durations' = Append(durations, row.duration)
               /\ azims' = Append(azims, row.sun_azimuth)
               /\ alts' = Append(alts, row.sun_alt)
               /\ obs_dates' = Append(obs_dates, << c.obs_date >>)
  /\ index' = index + 1
  /\ sa_pc' = AfterRow
  /\ UNCHANGED << datetime_index, index_tz, rise_set_times, irradiance_type,
                  subres_steps, one_over_cos_zenith, tmp_one_over_cos, sa_df,
                  sa_error >>

\* Lines 139-148: cumulative mode, the position at the timestamp itself, the
\* timestep and the number of sub-steps.  datetime_index[1] of a series of one
\* timestamp is an IndexError.
LoopCumulativeBegin ==
  /\ UNCHANGED saOthers
  /\ sa_pc = "loop" /\ irradiance_type = "cumulative"
  /\ IF Len(datetime_index) < 2
     THEN /\ sa_pc' = "raised" /\ sa_error' = "IndexError"
          /\ UNCHANGED << sun_alt, sun_azimuth, subres_steps, tmp_one_over_cos,
                          obs_dates >>
     ELSE /\ \E alt \in SunAlts, az \in SunAzims :
               sun_alt' = alt /\ sun_azimuth' = az
          /\ subres_steps' =
               IF subres_steps = 0
               THEN default_subres_steps(datetime_index[2] - datetime_index[1])
               ELSE subres_steps
          /\ tmp_one_over_cos' = << >>
          /\ obs_dates' = Append(obs_dates, << datetime_index[index] >>)
          /\ sa_pc' = "substeps"
          /\ UNCHANGED sa_error
  /\ UNCHANGED << datetime_index, index_tz, rise_set_times, irradiance_type, index,
                  alts, azims, durations, one_over_cos_zenith, sa_df >>

\* Lines 149-159: one sub-step of the inner loop.
SubStep ==
  /\ UNCHANGED saOthers
  /\ sa_pc = "substeps"
  /\ Len(tmp_one_over_cos) < subres_steps
  /\ LET ts == datetime_index[2] - datetime_index[1]
         k == Len(tmp_one_over_cos) + 1
         time_offset == linspace_offsets(subres_steps, ts)[k]
     IN  /\ obs_dates' = [obs_dates EXCEPT ![index] =
                            Append(@, datetime_index[index] + time_offset)]
         /\ \E alt \in SunAlts :
              /\ sun_alt' = alt
              /\ tmp_one_over_cos' = Append(tmp_one_over_cos, one_over_cos(alt))
  /\ UNCHANGED << sa_pc, datetime_index, index_tz, rise_set_times, irradiance_type,
                  subres_steps, index, alts, azims, durations,
                  one_over_cos_zenith, sun_azimuth, sa_df, sa_error >>

\* Lines 160-166: the step mean is appended; a mean of 0 zeroes the azimuth
\* and the altitude.
LoopCumulativeEnd ==
  /\ UNCHANGED saOthers
  /\ sa_pc = "substeps"
  /\ Len(tmp_one_over_cos) = subres_steps
  /\ LET row == cumulative_close(sun_alt, sun_azimuth, tmp_one_over_cos)
     IN  /\ one_over_cos_zenith' = Append(one_over_cos_zenith, row.mean)
         /\ sun_alt' = row.sun_alt /\ sun_azimuth' = row.sun_azimuth
         /\ azims' = Append(azims, row.sun_azimuth)
         /\ alts' = Append(alts, row.sun_alt)
  /\ index' = index + 1
  /\ sa_pc' = AfterRow
  /\ UNCHANGED << datetime_index, index_tz, rise_set_times, irradiance_type,
                  subres_steps, durations, tmp_one_over_cos, obs_dates, sa_df,
                  sa_error >>

\* Lines 168-186: the frame is built and returned.
BuildFrame ==
  /\ UNCHANGED saOthers
  /\ sa_pc = "frame"
  /\ sa_df' = IF irradiance_type = "instantaneous"
              THEN instantaneous_frame(alts, azims, durations)
              ELSE cumulative_frame(alts, azims, one_over_cos_zenith)
  /\ sa_pc' = "done"
  /\ UNCHANGED << datetime_index, index_tz, rise_set_times, irradiance_type,
                  subres_steps, index, alts, azims, durations,
                  one_over_cos_zenith, sun_alt, sun_azimuth, tmp_one_over_cos,
                  obs_dates, sa_error >>

SaNext ==
  \/ SunAnglesBegin
  \/ LoopInstantaneous
  \/ LoopCumulativeBegin
  \/ SubStep
  \/ LoopCumulativeEnd
  \/ BuildFrame

SpecSunAngles == SaInit /\ [][SaNext]_vars

(***************************************************************************)
(* aperture_irradiance (gsee/trigon.py).                                   *)
(***************************************************************************)
\* the product of two fixed-point numbers
Mul(a, b) == (a * b) \div Scale

incidence_fixed(alt, tlt, azm, sun_azm) ==
  nparccos(F(Mul(Sin100(alt), Cos100(tlt))
             + Mul(Mul(Cos100(alt), Sin100(tlt)), Cos100(azm - sun_azm))))

incidence_single_tracking(alt, tlt, azm, sun_azm) ==
  IF tlt = 0
  THEN nparccos(npsqrt(F(Scale - Mul(Mul(Cos100(alt), Cos100(alt)),
                                     Mul(Cos100(sun_azm - azm), Cos100(sun_azm - azm))))))
  ELSE LET x == Cos100(alt + tlt)
                - Mul(Mul(Cos100(tlt), Cos100(alt)), Scale - Cos100(sun_azm - azm))
       IN  nparccos(npsqrt(F(Scale - Mul(x, x))))

\* np.tan(alt) = sin / cos: numerator and denominator of the quotient are
\* multiplied by cos(alt), which keeps np.tan(0) = 0 an exact zero divisor
tilt_single_tracking(alt, tlt, azm, sun_azm) ==
  IF tlt = 0
  THEN nparctan_ratio(F(Mul(Sin100(sun_azm - azm), Cos100(alt))), F(Sin100(alt)))
  ELSE nparctan_ratio(
         F(Mul(Cos100(alt), Sin100(sun_azm - azm))),
         F(Sin100(alt - tlt)
           + Mul(Mul(Sin100(tlt), Cos100(alt)), Scale - Cos100(sun_azm - azm))))

\* Step 2, instantaneous: (direct * (duration / 60)) / np.cos(sun_zenith).
\* np.cos(pi / 2) is a tiny positive number, never 0.
dni_instantaneous(dir, a) ==
  IF dir.nan THEN NaN
  ELSE LET num == dir.v * a.duration
           c == Cos100(a.sun_zenith)
       IN  IF c = 0 THEN F(Sign(num) * Huge)
           ELSE F((num * Scale) \div (3600 * c))

\* Step 2, cumulative: direct * timestepmean_one_over_cos_sun_zenith
dni_cumulative(dir, a) == FScale(dir, a.timestepmean_one_over_cos_sun_zenith)

direct_normal(dir, a, type) ==
  IF type = "instantaneous" THEN dni_instantaneous(dir, a) ELSE dni_cumulative(dir, a)

\* A variant of step 3 in which the dual-axis mode keeps the cosine of the
\* fixed-panel incidence angle.
tracking_geometry_attenuated(trk, a, tlt, azm) ==
  IF trk = 0 \/ trk = 2
  THEN [ok |-> TRUE, azimuth |-> azm,
        incidence |-> incidence_fixed(a.sun_alt, tlt, azm, a.sun_azimuth),
        panel_tilt |-> F(tlt)]
  ELSE IF trk = 1
  THEN [ok |-> TRUE, azimuth |-> azm,
        incidence |-> incidence_single_tracking(a.sun_alt, tlt, azm, a.sun_azimuth),
        panel_tilt |-> tilt_single_tracking(a.sun_alt, tlt, azm, a.sun_azimuth)]
  ELSE [ok |-> FALSE, azimuth |-> azm, incidence |-> NaN, panel_tilt |-> NaN]

\* A variant of step 3 without the final else: every other tracking value is
\* taken for the dual-axis mode.
tracking_geometry_lenient(trk, a, tlt, azm) ==
  IF trk = 0
  THEN [ok |-> TRUE, azimuth |-> azm,
        incidence |-> incidence_fixed(a.sun_alt, tlt, azm, a.sun_azimuth),
        panel_tilt |-> F(tlt)]
  ELSE IF trk = 1
  THEN [ok |-> TRUE, azimuth |-> azm,
        incidence |-> incidence_single_tracking(a.sun_alt, tlt, azm, a.sun_azimuth),
        panel_tilt |-> tilt_single_tracking(a.sun_alt, tlt, azm, a.sun_azimuth)]
  ELSE [ok |-> TRUE, azimuth |-> a.sun_azimuth,
        incidence |-> F(0),
        panel_tilt |-> F(90 - a.sun_alt)]

\* Step 3: the incidence angle, the panel tilt and the azimuth of each
\* tracking mode.
tracking_geometry(trk, a, tlt, azm) ==
  IF trk = 0
  THEN [ok |-> TRUE, azimuth |-> azm,
        incidence |-> incidence_fixed(a.sun_alt, tlt, azm, a.sun_azimuth),
        panel_tilt |-> F(tlt)]
  ELSE IF trk = 1
  THEN [ok |-> TRUE, azimuth |-> azm,
        incidence |-> incidence_single_tracking(a.sun_alt, tlt, azm, a.sun_azimuth),
        panel_tilt |-> tilt_single_tracking(a.sun_alt, tlt, azm, a.sun_azimuth)]
  ELSE IF trk = 2
  THEN [ok |-> TRUE, azimuth |-> a.sun_azimuth,
        incidence |-> F(0),
        panel_tilt |-> F(90 - a.sun_alt)]
  ELSE [ok |-> FALSE, azimuth |-> azm, incidence |-> NaN, panel_tilt |-> NaN]

\* Step 4.
plane_direct(dn, inc) == clip_lower0(fillna0(FScale(dn, npcos(inc))))

plane_diffuse(dir, dif, alb, ptilt) ==
  LET c == npcos(ptilt)
      sky == IF c.nan THEN NaN ELSE F((Scale + c.v) \div 2)
      ground == IF c.nan THEN NaN ELSE F((Scale - c.v) \div 2)
  IN  fillna0(FAdd(FScale(dif, sky),
                   FScale(FScale(FAdd(dir, dif), F(alb)), ground)))

\* The rows sun_angles can return for one timestamp.
ItemTimes == {hms(6, 0, 0), hms(12, 0, 0), hms(18, 0, 0)}

InstantaneousRows ==
  { [sun_alt |-> f.sun_alt, sun_azimuth |-> f.sun_azimuth, duration |-> f.duration,
     sun_zenith |-> f.sun_zenith, timestepmean_one_over_cos_sun_zenith |-> NaN] :
    f \in { instantaneous_frame(<< r.sun_alt >>, << r.sun_azimuth >>, << r.duration >>)[1] :
            r \in UNION { { instantaneous_row(item, rise, set, alt, az) :
                             alt \in ephem_alts(instantaneous_case(item, rise, set)),
                             az \in SunAzims } :
                           item \in ItemTimes, rise \in RiseTimes, set \in SetTimes } } }

CumulativeRows ==
  { [sun_alt |-> r.sun_alt, sun_azimuth |-> r.sun_azimuth, duration |-> 0,
     sun_zenith |-> 0, timestepmean_one_over_cos_sun_zenith |-> r.mean] :
    r \in { cumulative_close(IF n = 0 THEN alt ELSE sub[n], az,
                             [k \in 1..n |-> one_over_cos(sub[k])]) :
            n \in 0..2, alt \in SunAlts, az \in SunAzims, sub \in [1..2 -> SunAlts] } }

AnglesRows(type) ==
  IF type = "instantaneous" THEN InstantaneousRows ELSE CumulativeRows

\* Inputs.
Irradiances == {NaN, F(-50), F(0), F(400)}
Latitudes == {-30, 0, 47}
Tilts == {0, 30}
Azimuths == {0, 180}
Trackings == {0, 1, 2, 3}
IrradianceTypes == {"instantaneous", "cumulative", "hourly"}
Albedos == {30}

ApInit ==
  /\ entry = "aperture_irradiance"
  /\ ap_pc = "start"
  /\ direct \in Irradiances /\ diffuse \in Irradiances
  /\ coords \in Latitudes
  /\ tilt \in Tilts /\ azimuth \in Azimuths
  /\ tracking \in Trackings
  /\ albedo \in Albedos
  /\ dni_only \in BOOLEAN
  /\ ap_irradiance_type \in IrradianceTypes
  /\ \/ angles = None
     \/ /\ ap_irradiance_type # "hourly"
        /\ angles \in {Some(r) : r \in AnglesRows(ap_irradiance_type)}
  /\ dni = NaN /\ incidence = NaN /\ panel_tilt = NaN
  /\ ap_result = NoResult /\ ap_error = "none" /\ trace = << >>
  /\ RmIdle

\* A variant without the correction of the southern hemisphere.
corrected_azimuth_unshifted(lat, azm) == azm

\* Lines 305-306: if coords[0] < 0: azimuth = azimuth + np.pi
corrected_azimuth(lat, azm) == IF lat < 0 THEN azm + 180 ELSE azm

\* Lines 301-308: the assertion on irradiance_type and the correction of the
\* azimuth on the southern hemisphere.
ApBegin ==
  /\ ap_pc = "start"
  /\ IF ap_irradiance_type \notin {"instantaneous", "cumulative"}
     THEN /\ ap_pc' = "raised" /\ ap_error' = "AssertionError"
          /\ UNCHANGED azimuth
     ELSE /\ azimuth' = corrected_azimuth(coords, azimuth)
          /\ ap_pc' = IF IsNone(angles) THEN "rise_set" ELSE "dni"
          /\ UNCHANGED ap_error
  /\ UNCHANGED << entry, direct, diffuse, coords, tilt, tracking, albedo, dni_only,
                  angles, ap_irradiance_type, dni, incidence, panel_tilt,
                  ap_result, trace >>
  /\ UNCHANGED << rmVars, apOthers >>

\* Line 309: sun_rise_set_times(direct.index, coords)
ApSunRiseSetTimes ==
  /\ ap_pc = "rise_set"
  /\ trace' = Append(trace, "sun_rise_set_times")
  /\ ap_pc' = "sun_angles"
  /\ UNCHANGED << entry, direct, diffuse, coords, tilt, azimuth, tracking, albedo,
                  dni_only, angles, ap_irradiance_type, dni, incidence,
                  panel_tilt, ap_result, ap_error >>
  /\ UNCHANGED << rmVars, apOthers >>

\* Lines 310-312: sun_angles(direct.index, coords, sunrise_set_times, ...)
ApSunAngles ==
  /\ ap_pc = "sun_angles"
  /\ \E r \in AnglesRows(ap_irradiance_type) : angles' = Some(r)
  /\ trace' = Append(trace, "sun_angles")
  /\ ap_pc' = "dni"
  /\ UNCHANGED << entry, direct, diffuse, coords, tilt, azimuth, tracking, albedo,
                  dni_only, ap_irradiance_type, dni, incidence, panel_tilt,
                  ap_result, ap_error >>
  /\ UNCHANGED << rmVars, apOthers >>

\* Lines 313-319: the direct normal irradiance, returned when dni_only.
ApDni ==
  /\ ap_pc = "dni"
  /\ LET d == direct_normal(direct, Get(angles), ap_irradiance_type)
     IN  /\ dni' = d
         /\ IF dni_only
            THEN /\ ap_result' = [NoResult EXCEPT !.kind = "dni", !.dni = d]
                 /\ ap_pc' = "done"
            ELSE /\ UNCHANGED ap_result
                 /\ ap_pc' = "incidence"
  /\ trace' = Append(trace, "dni")
  /\ UNCHANGED << entry, direct, diffuse, coords, tilt, azimuth, tracking, albedo,
                  dni_only, angles, ap_irradiance_type, incidence, panel_tilt,
                  ap_error >>
  /\ UNCHANGED << rmVars, apOthers >>

\* Lines 320-341: the incidence angle of the tracking mode, or ValueError.
ApIncidence ==
  /\ ap_pc = "incidence"
  /\ LET g == tracking_geometry(tracking, Get(angles), tilt, azimuth)
     IN  IF g.ok
         THEN /\ incidence' = g.incidence
              /\ panel_tilt' = g.panel_tilt
              /\ azimuth' = g.azimuth
              /\ trace' = Append(trace, "incidence")
              /\ ap_pc' = "plane"
              /\ UNCHANGED ap_error
         ELSE /\ ap_pc' = "raised" /\ ap_error' = "ValueError"
              /\ UNCHANGED << incidence, panel_tilt, azimuth, trace >>
  /\ UNCHANGED << entry, direct, diffuse, coords, tilt, tracking, albedo, dni_only,
                  angles, ap_irradiance_type, dni, ap_result >>
  /\ UNCHANGED << rmVars, apOthers >>

\* Lines 342-350: direct and diffuse irradiance on the plane.
ApPlane ==
  /\ ap_pc = "plane"
  /\ ap_result' = [NoResult EXCEPT !.kind = "frame",
                     !.direct = plane_direct(dni, incidence),
                     !.diffuse = plane_diffuse(direct, diffuse, albedo, panel_tilt)]
  /\ trace' = Append(trace, "plane")
  /\ ap_pc' = "done"
  /\ UNCHANGED << entry, direct, diffuse, coords, tilt, azimuth, tracking, albedo,
                  dni_only, angles, ap_irradiance_type, dni, incidence,
                  panel_tilt, ap_error >>
  /\ UNCHANGED << rmVars, apOthers >>

ApNext ==
  \/ ApBegin
  \/ ApSunRiseSetTimes
  \/ ApSunAngles
  \/ ApDni
  \/ ApIncidence
  \/ ApPlane

(***************************************************************************)
(* run_model (gsee/pv.py).                                                 *)
(***************************************************************************)
\* math.radians: degrees to the unit of the trigonometry, in which pi is 180
radians(deg) == deg

GlobalHorizontals == {NaN, F(0), F(1000)}
DiffuseFractions == {F(0), F(40), F(Scale)}
SystemLosses == {-10, 0, 10, Scale, Scale + 10}
DefaultAlbedo == 30

\* A variant of the check that also rejects the two ends of the interval.
system_loss_invalid_open(loss) == (loss <= 0) \/ (loss >= Scale)

\* Line 329: the check of system_loss
system_loss_invalid(loss) == (loss < 0) \/ (loss > Scale)

RmInit ==
  /\ entry = "run_model"
  /\ rm_pc = "start"
  /\ data \in [global_horizontal : GlobalHorizontals, diffuse_fraction : DiffuseFractions]
  /\ system_loss \in SystemLosses
  /\ coords \in Latitudes
  /\ \E type \in {"instantaneous", "cumulative"} :
       rm_args \in [tilt : Tilts, azim : Azimuths, tracking : Trackings,
                    angles : {None} \cup {Some(r) : r \in AnglesRows(type)},
                    irradiance_type : {type}]
  /\ rm_error = "none"
  /\ ap_pc = "idle"
  /\ direct = NaN /\ diffuse = NaN /\ tilt = 0 /\ azimuth = 0
  /\ tracking = 0 /\ albedo = 0 /\ dni_only = FALSE /\ angles = None
  /\ ap_irradiance_type = "instantaneous"
  /\ dni = NaN /\ incidence = NaN /\ panel_tilt = NaN
  /\ ap_result = NoResult /\ ap_error = "none" /\ trace = << >>

\* Lines 329-330.
RunModelCheck ==
  /\ rm_pc = "start"
  /\ IF system_loss_invalid(system_loss)
     THEN rm_pc' = "raised" /\ rm_error' = "ValueError: system_loss"
     ELSE rm_pc' = "split" /\ UNCHANGED rm_error
  /\ UNCHANGED << data, system_loss, rm_args, apVars, apOthers >>

\* Lines 333-347: the split into direct and diffuse horizontal irradiance and
\* the call of aperture_irradiance.
RunModelSplit ==
  /\ rm_pc = "split"
  /\ direct' = FScale(data.global_horizontal, FSub(F(Scale), data.diffuse_fraction))
  /\ diffuse' = FScale(data.global_horizontal, data.diffuse_fraction)
  /\ trace' = Append(trace, "split")
  /\ tracking' = rm_args.tracking
  /\ azimuth' = radians(rm_args.azim)
  /\ tilt' = radians(rm_args.tilt)
  /\ angles' = rm_args.angles
  /\ ap_irradiance_type' = rm_args.irradiance_type
  /\ albedo' = DefaultAlbedo
  /\ dni_only' = FALSE
  /\ ap_pc' = "start"
  /\ rm_pc' = "aperture"
  /\ UNCHANGED << entry, coords, dni, incidence, panel_tilt, ap_result, ap_error >>
  /\ UNCHANGED << data, system_loss, rm_args, rm_error, apOthers >>

\* Lines 337-348: aperture_irradiance returns its frame, or its exception
\* passes through run_model.
RunModelReturn ==
  /\ rm_pc = "aperture"
  /\ ap_pc \in {"done", "raised"}
  /\ IF ap_pc = "raised"
     THEN rm_pc' = "raised" /\ rm_error' = ap_error
     ELSE rm_pc' = "panel" /\ UNCHANGED rm_error
  /\ UNCHANGED << data, system_loss, rm_args, apVars, apOthers >>

(***************************************************************************)
(* The panel model and the inverter of run_model (gsee/pv.py).             *)
(* Efficiencies are fixed-point numbers of six decimals; the logarithm of  *)
(* the normalised irradiance is taken on a grid of 50 W/m2, in thousandths.*)
(***************************************************************************)
R_TAMB == 20
R_TMOD == 25
R_IRRADIANCE == 1000

\* 1000 * ln(i / 20) for i = 1..40
LnTable ==
  << -2996, -2303, -1897, -1609, -1386, -1204, -1050, -916, -799, -693, -598,
     -511, -431, -357, -288, -223, -163, -105, -51, 0, 49, 95, 140, 182, 223,
     262, 300, 336, 372, 405, 438, 470, 501, 531, 560, 588, 615, 642, 668, 693 >>

\* np.log(G_) for G_ = irradiance / R_IRRADIANCE: NaN for a negative G_ and
\* -inf for 0, which both end as a NaN efficiency
nplog(irradiance) ==
  IF irradiance <= 0 THEN NaN
  ELSE LET i == (irradiance * 20 + R_IRRADIANCE \div 2) \div R_IRRADIANCE
       IN  F(LnTable[IF i < 1 THEN 1 ELSE IF i > 40 THEN 40 ELSE i])

\* HuldCSiPanel, HuldCISPanel, HuldCdTePanel: k_1 .. k_6 in millionths
Huld_k(tech) ==
  IF tech = "csi" THEN << -17162, -40289, -4681, 148, 169, 5 >>
  ELSE IF tech = "cis" THEN << -5521, -38492, -3701, -899, -1248, 1 >>
  ELSE << -103251, -40446, -1667, -2075, -1445, -23 >>

\* HuldPanel.panel_relative_efficiency with c_temp_amb = 1 and
\* c_temp_irrad = 0.035, in millionths: NaN filled with 0, negatives set to 0.
\* tamb is a float of whole degC.
panel_relative_efficiency(tech, irradiance, tamb) ==
  LET k == Huld_k(tech)
      lg == nplog(irradiance)
  IN  IF lg.nan \/ tamb.nan THEN 0
      ELSE LET L == lg.v
               L2 == (L * L) \div 1000
               T_ == 1000 * tamb.v + 35 * irradiance - 1000 * R_TMOD
               T2 == (T_ \div 10) * (T_ \div 10)
               eff == 1000000 + (k[1] * L) \div 1000 + (k[2] * L2) \div 1000
                      + (T_ * (k[3] + (k[4] * L) \div 1000 + (k[5] * L2) \div 1000))
                          \div 1000
                      + (k[6] * T2) \div 10000
           IN  IF eff < 0 THEN 0 ELSE eff

\* PVPanel.panel_power with panel_aperture = capacity * 0.001 / 0.1 and
\* panel_ref_efficiency = 0.1: irradiance * capacity * efficiency / 1000
panel_power(tech, cap, irradiance, tamb) ==
  (((irradiance * (panel_relative_efficiency(tech, irradiance, tamb) \div 10))
      \div 1000) * cap) \div 100000

\* Series.clip(upper=capacity)
clip_upper(x, upper) == IF x > upper THEN upper ELSE x

min(a, b) == IF a < b THEN a ELSE b

\* A variant of the inverter curve that is not limited to the AC capacity.
ac_output_unclamped(ac_capacity, dc_in) ==
  IF dc_in = 0 THEN 0
  ELSE (9858 * dc_in - 162 * ((dc_in * dc_in) \div ac_capacity) - 59 * ac_capacity)
         \div 9637

\* Inverter.ac_output with eff_ref = 0.9637 and eff_nom = 1.0, so that
\* dc_capacity = ac_capacity and efficiency_term = 1 / 0.9637:
\* dc_in * eff = dc_in * (-0.0162 * zeta - 0.0059 / zeta + 0.9858) / 0.9637
\* with zeta = dc_in / dc_capacity, multiplied out.
ac_output(ac_capacity, dc_in) ==
  IF dc_in = 0 THEN 0
  ELSE min(ac_capacity,
           (9858 * dc_in - 162 * ((dc_in * dc_in) \div ac_capacity)
              - 59 * ac_capacity) \div 9637)

Capacities == {1000}
Technologies == {"csi"}
Temperatures == {None, Some(F(-10))}
InverterCapacities == {None, Some(500), Some(2000)}

\* Lines 349-373: the ambient temperature, the panel and its clipped output.
RunModelPanel ==
  /\ rm_pc = "panel"
  /\ \E cap \in Capacities, tech \in Technologies, temp \in Temperatures :
       LET tamb == IF IsNone(temp) THEN F(R_TAMB) ELSE Get(temp)
           irradiance == ap_result.direct.v + ap_result.diffuse.v
       IN  /\ capacity' = cap /\ technology' = tech /\ temperature' = temp
           /\ dc_out' = clip_upper(panel_power(tech, cap, irradiance, tamb), cap)
  /\ rm_pc' = "inverter"
  /\ UNCHANGED << inverter_capacity, use_inverter, ac_out, ac_out_final >>
  /\ UNCHANGED << data, system_loss, rm_args, rm_error, apVars, saVars, dnVars,
                  pfVars, dhVars, brVars, itfVars >>

\* Lines 375-395: the inverter, the system loss, and the series returned.
RunModelInverter ==
  /\ rm_pc = "inverter"
  /\ \E inv \in InverterCapacities, use \in BOOLEAN :
       LET ac_capacity == IF IsNone(inv) THEN capacity ELSE Get(inv)
           ac == clip_lower0(F(ac_output(ac_capacity, dc_out))).v
       IN  /\ inverter_capacity' = inv /\ use_inverter' = use
           /\ ac_out' = IF use THEN ac ELSE ac_out
           /\ ac_out_final' = IF use
                              THEN (ac * (Scale - system_loss)) \div Scale
                              ELSE (dc_out * (Scale - system_loss)) \div Scale
  /\ rm_pc' = "done"
  /\ UNCHANGED << capacity, technology, temperature, dc_out >>
  /\ UNCHANGED << data, system_loss, rm_args, rm_error, apVars, saVars, dnVars,
                  pfVars, dhVars, brVars, itfVars >>

RmNext ==
  \/ RunModelCheck
  \/ RunModelSplit
  \/ RunModelReturn
  \/ RunModelPanel
  \/ RunModelInverter

Init == (ApInit \/ RmInit) /\ SaIdle /\ DnIdle /\ PfIdle /\ MoreIdle

Next == ApNext \/ RmNext

Spec == Init /\ [][Next]_vars

(***************************************************************************)
(* Properties of run_model and aperture_irradiance, under Spec.            *)
(***************************************************************************)
TrackingError == "ValueError"
SystemLossError == "ValueError: system_loss"

\* C1: run_model raises ValueError whenever system_loss < 0 or system_loss > 1,
\* before the irradiance split, the sun angles, the aperture or the panel
\* computation (the trace is empty and aperture_irradiance was not entered);
\* for system_loss in [0, 1], both ends included, this error is not raised.
C1_system_loss_rejected_first ==
  entry = "run_model" =>
    /\ (rm_pc # "start" /\ (system_loss < 0 \/ system_loss > Scale)) =>
         /\ rm_pc = "raised" /\ rm_error = SystemLossError
         /\ trace = << >> /\ ap_pc = "idle" /\ ap_result = NoResult
    /\ (system_loss >= 0 /\ system_loss <= Scale) =>
         /\ rm_error # SystemLossError
         /\ rm_pc # "start" => rm_pc \in {"split", "aperture", "panel", "inverter", "done",
                                      "raised"}
         /\ rm_pc = "raised" => rm_error = ap_error /\ ap_pc = "raised"

C1_witness ==
  /\ entry = "run_model" /\ rm_pc = "raised" /\ rm_error = SystemLossError
  /\ system_loss > Scale /\ rm_args.tracking \in {0, 1, 2}
  /\ ~data.global_horizontal.nan

\* C4: for every input, negative and NaN direct and diffuse horizontal
\* irradiance included, the 'direct' and the 'diffuse' columns of the frame
\* aperture_irradiance returns are >= 0 and hold no NaN, for tracking 0, 1, 2.
C4_plane_irradiance_nonnegative ==
  (ap_pc = "done" /\ ap_result.kind = "frame" /\ tracking \in {0, 1, 2}) =>
    /\ ~ap_result.direct.nan /\ ap_result.direct.v >= 0
    /\ ~ap_result.diffuse.nan /\ ap_result.diffuse.v >= 0

\* C5: with tracking = 2 the incidence angle is 0 and the direct irradiance on
\* the plane is the direct normal irradiance that dni_only returns for the
\* same inputs, NaN replaced by 0 and negatives clipped to 0, whatever tilt
\* and azimuth were passed.
C5_dual_axis_direct_is_dni ==
  (tracking = 2 /\ ap_pc = "done" /\ ap_result.kind = "frame") =>
    /\ incidence = F(0)
    /\ ap_result.direct =
         clip_lower0(fillna0(direct_normal(direct, Get(angles), ap_irradiance_type)))

C5_witness ==
  /\ tracking = 2 /\ ap_pc = "done" /\ ap_result.kind = "frame"
  /\ tilt = 30 /\ coords < 0
  /\ ap_result.direct.v > 0 /\ ap_result.direct.v < Huge
  /\ Get(angles).sun_alt = 40

\* C6: aperture_irradiance called with a tracking value other than 0, 1, 2 and
\* dni_only false (and an irradiance_type the assertion accepts) ends by raising
\* ValueError and returns no frame; tracking 0, 1 and 2 never raise it.
C6_invalid_tracking_raises ==
  /\ (ap_pc = "done" /\ ~dni_only) => tracking \in {0, 1, 2}
  /\ (ap_pc = "raised" /\ ap_error = TrackingError) =>
       /\ tracking \notin {0, 1, 2} /\ ~dni_only
       /\ ap_result = NoResult
  /\ (ap_pc = "raised" /\ tracking \notin {0, 1, 2} /\ ~dni_only
        /\ ap_irradiance_type \in {"instantaneous", "cumulative"}) =>
       ap_error = TrackingError
  /\ (tracking \notin {0, 1, 2} /\ ~dni_only) => ap_pc # "plane"

C6_witness ==
  /\ entry = "aperture_irradiance" /\ ap_pc = "raised" /\ ap_error = TrackingError
  /\ tracking = 3 /\ ~dni_only /\ ap_result = NoResult
  /\ direct = F(400)

\* C7: an invalid tracking mode is rejected before any computation starts: in
\* run_model and aperture_irradiance the error is raised before sunrise and
\* sunset times, sun angles or direct normal irradiance are computed.
C7_invalid_tracking_rejected_first ==
  (ap_pc = "raised" /\ ap_error = TrackingError) =>
    \A i \in 1..Len(trace) :
      trace[i] \notin {"sun_rise_set_times", "sun_angles", "dni"}

(***************************************************************************)
(* Properties of sun_angles, under SpecSunAngles.  The duration column is  *)
(* kept in seconds: 60 minutes are 3600.                                   *)
(***************************************************************************)
\* C2: in every row sun_angles returns in instantaneous mode, whichever branch
\* produced it (sunrise hour, sunset hour, any other hour), the illuminated
\* duration lies in [0, 60] minutes and is 0 whenever the returned solar
\* altitude is <= 0.
C2_duration_zero_when_sun_down ==
  (sa_pc = "done" /\ irradiance_type = "instantaneous") =>
    \A i \in 1..Len(sa_df) :
      /\ sa_df[i].duration >= 0 /\ sa_df[i].duration <= 3600
      /\ sa_df[i].sun_alt <= 0 => sa_df[i].duration = 0

\* C3: sun_angles never returns a negative sun_alt, for every timestamp, with
\* irradiance_type 'instantaneous' and with irradiance_type 'cumulative'.
C3_sun_alt_never_negative ==
  sa_pc = "done" => \A i \in 1..Len(sa_df) : sa_df[i].sun_alt >= 0

\* C8: sun_angles given a timezone-naive or non-UTC index raises
\* ValueError('Input data must be in UTC timezone.') instead of computing
\* angles as if the index were in UTC.
C8_non_utc_index_raises ==
  (index_tz # "UTC" /\ sa_pc # "start") =>
    /\ sa_error = "ValueError: Input data must be in UTC timezone."
    /\ sa_pc = "raised" /\ sa_df = << >>

(***************************************************************************)
(* The floats of pre_gsee_processing.py as exact fractions, with the NaN   *)
(* and the infinities a division by zero gives in numpy.                   *)
(***************************************************************************)
RECURSIVE GCD(_, _)
GCD(a, b) == IF b = 0 THEN a ELSE GCD(b, a % b)

RatNaN == [kind |-> "nan", n |-> 0, d |-> 1]
RatInf(sign) == [kind |-> "inf", n |-> sign, d |-> 1]
\* n / d in lowest terms, d # 0
Rat(n, d) ==
  LET g == GCD(Abs(n), Abs(d))
  IN  [kind |-> "num", n |-> (Sign(d) * n) \div g, d |-> Abs(d) \div g]

RatDiv(a, b) ==
  IF a.kind = "nan" \/ b.kind = "nan" THEN RatNaN
  ELSE IF a.kind = "inf" THEN (IF b.kind = "inf" THEN RatNaN
                               ELSE RatInf(IF b.n < 0 THEN -a.n ELSE a.n))
  ELSE IF b.kind = "inf" THEN Rat(0, 1)
  ELSE IF b.n = 0 THEN (IF a.n = 0 THEN RatNaN ELSE RatInf(Sign(a.n)))
  ELSE LET g == GCD(Abs(a.n), Abs(b.n))
           h == GCD(a.d, b.d)
       IN  Rat((a.n \div g) * (b.d \div h), (a.d \div h) * (b.n \div g))

RatMul(a, b) ==
  IF a.kind = "nan" \/ b.kind = "nan" THEN RatNaN
  ELSE IF a.kind = "inf" \/ b.kind = "inf"
  THEN (IF a.n = 0 \/ b.n = 0 THEN RatNaN ELSE RatInf(Sign(a.n) * Sign(b.n)))
  ELSE LET g == GCD(Abs(a.n), b.d)
           h == GCD(Abs(b.n), a.d)
       IN  Rat((a.n \div g) * (b.n \div h), (a.d \div h) * (b.d \div g))

RatAdd(a, b) ==
  IF a.kind = "nan" \/ b.kind = "nan" THEN RatNaN
  ELSE IF a.kind = "inf" THEN (IF b.kind = "inf" /\ b.n # a.n THEN RatNaN ELSE a)
  ELSE IF b.kind = "inf" THEN b
  ELSE LET g == GCD(a.d, b.d)
       IN  Rat(a.n * (b.d \div g) + b.n * (a.d \div g), (a.d \div g) * b.d)

\* the sum of s[lo..hi], by halves
RECURSIVE RatSumRange(_, _, _)
RatSumRange(s, lo, hi) ==
  IF lo > hi THEN Rat(0, 1)
  ELSE IF lo = hi THEN s[lo]
  ELSE LET mid == (lo + hi) \div 2
       IN  RatAdd(RatSumRange(s, lo, mid), RatSumRange(s, mid + 1, hi))

RatSum(s) == RatSumRange(s, 1, Len(s))

\* np.mean and the mean of a resampled day
RatMean(s) == IF s = << >> THEN RatNaN ELSE RatDiv(RatSum(s), Rat(Len(s), 1))

(***************************************************************************)
(* convert_to_durinal (gsee/climatedata_interface/pre_gsee_processing.py). *)
(***************************************************************************)
MaxDays == 2

\* A variant of decimal_hours that takes the minutes for hundredths of an hour.
decimal_hours_centesimal(timeobject, rise_or_set) ==
  IF ~IsNone(timeobject)
  THEN hour(Get(timeobject)) * 1000 + minute(Get(timeobject)) * 10
  ELSE IF rise_or_set = "sunrise" THEN 0
  ELSE 23999

\* decimal hours are kept in thousandths of an hour: 23.999 is 23999
decimal_hours(timeobject, rise_or_set) ==
  IF ~IsNone(timeobject)
  THEN hour(Get(timeobject)) * 1000 + (minute(Get(timeobject)) * 1000) \div 60
  ELSE IF rise_or_set = "sunrise" THEN 0
  ELSE 23999

\* The sinusoidal shape function of the compiled extension: val times a weight
\* that is zero outside the lit window and largest in its middle.
csinus_weight(sunrise_h, sunset_h, hr) ==
  IF sunset_h <= sunrise_h \/ hr * 1000 < sunrise_h \/ hr * 1000 > sunset_h
  THEN 0
  ELSE Sin100((180 * (hr * 1000 - sunrise_h)) \div (sunset_h - sunrise_h))

csinus_func(sunrise_h, sunset_h, hr, val) ==
  Rat(val * csinus_weight(sunrise_h, sunset_h, hr), Scale)

\* _upsample_df_single_day: a row at midnight of the day after the last is
\* added, the frame is resampled to hours and padded over at most 23 hours,
\* the added row is dropped, and so are the rows holding only NaN (those
\* padded from the rows of df at the positions allnan).  The result maps the
\* hour of the series to the daily row it was padded from.
upsample_df_single_day(df, allnan) ==
  LET kept == {t \in df[1].day * 24 .. df[Len(df)].day * 24 + 23 :
                 \E i \in 1..Len(df) : df[i].day = t \div 24 /\ i \notin allnan}
  IN  [t \in kept |-> df[CHOOSE i \in 1..Len(df) : df[i].day = t \div 24]]

\* The values of an hourly column on one day, in the order of the hours.
RECURSIVE DayValues(_, _, _)
DayValues(col, day, h) ==
  IF h > 23 THEN << >>
  ELSE (IF (day * 24 + h) \in DOMAIN col THEN << col[day * 24 + h] >> ELSE << >>)
       \o DayValues(col, day, h + 1)

\* resample(rule='D').mean() of an hourly column, one row per day from the
\* first to the last
resample_D_mean(col, first, last) ==
  [k \in 1..(last - first + 1) |->
     [day |-> first + k - 1, global_horizontal |-> RatMean(DayValues(col, first + k - 1, 0))]]

\* mean_daily / data['global_horizontal']: a division aligned on the index
corr_fact(mean_daily, dat) ==
  [k \in 1..Len(mean_daily) |->
     [day |-> mean_daily[k].day,
      global_horizontal |->
        IF \E i \in 1..Len(dat) : dat[i].day = mean_daily[k].day
        THEN RatDiv(mean_daily[k].global_horizontal,
                    Rat(dat[CHOOSE i \in 1..Len(dat) : dat[i].day = mean_daily[k].day]
                          .global_horizontal, 1))
        ELSE RatNaN]]

\* daily['global_horizontal'] / ups_corr_fact['global_horizontal'], put back
\* on the index of daily
daily_corr(daily, ups) ==
  [t \in DOMAIN daily |->
     IF t \in DOMAIN ups
     THEN RatDiv(daily[t].global_horizontal, ups[t].global_horizontal)
     ELSE RatNaN]

GlobalDaily == {0, 1, 7}
Factors == {1, 24}
\* what _get_rise_and_set_time returns for a day: no rise and no set, or both
DnRiseSets == {<< None, None >>, << Some(hms(6, 59, 30)), Some(hms(18, 0, 40)) >>}
DayIndexes ==
  {idx \in UNION {[1..n -> 0..MaxDays] : n \in 1..MaxDays} :
     \A i \in 1..(Len(idx) - 1) : idx[i] < idx[i + 1]}

with_rise_set(row, rs) ==
  [row EXCEPT !.rise_set = rs,
              !.sunrise_h = decimal_hours(rs[1], "sunrise"),
              !.sunset_h = decimal_hours(rs[2], "sunset")]

DnInit ==
  /\ dn_pc = "start"
  /\ dn_factor \in Factors
  /\ dn_has_rise_set \in BOOLEAN
  /\ \E idx \in DayIndexes :
       \E gh \in [1..Len(idx) -> GlobalDaily], rs \in [1..Len(idx) -> DnRiseSets] :
         /\ ~dn_has_rise_set => \A i \in 1..Len(idx) : rs[i] = << None, None >>
         /\ dn_data = [i \in 1..Len(idx) |->
                         LET row == [day |-> idx[i], global_horizontal |-> gh[i],
                                     rise_set |-> << None, None >>, sunrise_h |-> 0,
                                     sunset_h |-> 0, global_horizontal_day |-> 0]
                         IN  IF dn_has_rise_set THEN with_rise_set(row, rs[i]) ELSE row]
  /\ dn_daily = << >>
  /\ SaIdle /\ ApIdle /\ RmIdle /\ PfIdle /\ MoreIdle

\* Lines 293-296: the sunrise and sunset hours, when the frame has none.
DnRiseSet ==
  /\ dn_pc = "start"
  /\ IF dn_has_rise_set
     THEN UNCHANGED dn_data
     ELSE \E rs \in [1..Len(dn_data) -> DnRiseSets] :
            dn_data' = [i \in 1..Len(dn_data) |-> with_rise_set(dn_data[i], rs[i])]
  /\ dn_pc' = "upsample"
  /\ UNCHANGED << dn_has_rise_set, dn_factor, dn_daily, dnOthers >>

\* Lines 298-300: the scaled daily value, the hourly frame and its hour column.
DnUpsample ==
  /\ dn_pc = "upsample"
  /\ dn_data' = [i \in 1..Len(dn_data) |->
                   [dn_data[i] EXCEPT !.global_horizontal_day =
                                        dn_factor * dn_data[i].global_horizontal]]
  /\ LET up == upsample_df_single_day(dn_data', {})
     IN  dn_daily' = [t \in DOMAIN up |->
                        [hour |-> t % 24,
                         sunrise_h |-> up[t].sunrise_h,
                         sunset_h |-> up[t].sunset_h,
                         global_horizontal_day |-> up[t].global_horizontal_day,
                         global_horizontal |-> Rat(up[t].global_horizontal, 1)]]
  /\ dn_pc' = "sinus"
  /\ UNCHANGED << dn_has_rise_set, dn_factor, dnOthers >>

\* Lines 301-304: the sinusoidal hourly values.
DnSinus ==
  /\ dn_pc = "sinus"
  /\ dn_daily' = [t \in DOMAIN dn_daily |->
                    [dn_daily[t] EXCEPT !.global_horizontal =
                       csinus_func(dn_daily[t].sunrise_h, dn_daily[t].sunset_h,
                                   dn_daily[t].hour, dn_daily[t].global_horizontal_day)]]
  /\ dn_pc' = "correct"
  /\ UNCHANGED << dn_data, dn_has_rise_set, dn_factor, dnOthers >>

\* Lines 305-311: the correction to the daily mean.
DnCorrect ==
  /\ dn_pc = "correct"
  /\ \E mean_daily \in {resample_D_mean([t \in DOMAIN dn_daily |->
                                             dn_daily[t].global_horizontal],
                                          dn_data[1].day, dn_data[Len(dn_data)].day)} :
       \E cf \in {corr_fact(mean_daily, dn_data)} :
       \E ups_corr_fact \in {upsample_df_single_day(
                                cf, {k \in 1..Len(cf) : cf[k].global_horizontal.kind = "nan"})} :
         \E corr \in {daily_corr(dn_daily, ups_corr_fact)} :
           dn_daily' = [t \in DOMAIN dn_daily |->
                          [dn_daily[t] EXCEPT !.global_horizontal = corr[t]]]
  /\ dn_pc' = "done"
  /\ UNCHANGED << dn_data, dn_has_rise_set, dn_factor, dnOthers >>

DnNext ==
  \/ DnRiseSet
  \/ DnUpsample
  \/ DnSinus
  \/ DnCorrect

SpecDiurnal == DnInit /\ [][DnNext]_vars

\* C9: for every day of the input and any non-negative daily value, zero
\* included, the result of convert_to_durinal has exactly 24 rows for the day
\* and their mean is the original daily value, whatever the factor.
C9_daily_mean_preserved ==
  dn_pc = "done" =>
    \A i \in 1..Len(dn_data) :
      LET vals == DayValues([t \in DOMAIN dn_daily |-> dn_daily[t].global_horizontal],
                            dn_data[i].day, 0)
      IN  /\ Len(vals) = 24
          /\ RatMean(vals) = Rat(dn_data[i].global_horizontal, 1)

(***************************************************************************)
(* _resample_with_pdfs and create_rand_month                               *)
(* (gsee/climatedata_interface/pre_gsee_processing.py).                    *)
(***************************************************************************)
MaxPeriods == 2

\* calendar.monthrange(year, mon)[1]
isleap(year) == year % 4 = 0 /\ (year % 100 # 0 \/ year % 400 = 0)
monthrange_days(year, mon) ==
  IF mon = 2 THEN (IF isleap(year) THEN 29 ELSE 28)
  ELSE IF mon \in {4, 6, 9, 11} THEN 30
  ELSE 31

\* Lines 160-164
n_months(frequency) ==
  IF frequency = "A" THEN 12 ELSE IF frequency = "S" THEN 3 ELSE 1
monthlist == [i \in 1..24 |-> ((i - 1) % 12) + 1]
\* monthlist[start_month - 1:start_month + n_months - 1]
row_months(start_month, frequency) ==
  SubSeq(monthlist, start_month, start_month + n_months(frequency) - 1)

multi == 10000

\* The draws custm.rvs(size=n) can return: every day takes one of the bins of
\* positive probability.  Followed here are the draws in which the days after
\* the first all take the same bin.
rvs(xk, pk, n) ==
  LET support == {k \in 1..Len(xk) : pk[k] > 0}
  IN  { [i \in 1..n |-> IF i = 1 THEN xk[b1] ELSE xk[b2]] :
        b1 \in support, b2 \in support }

\* A variant of create_rand_month that returns the draws as scaled by multi.
create_rand_month_unscaled(xk, pk, n) ==
  LET xk_multi == [k \in 1..Len(xk) |-> RatMul(xk[k], Rat(multi, 1))]
  IN  IF SumSeq(pk) # 0 /\ SumSeq(pk) > 0
      THEN rvs(xk_multi, pk, n)
      ELSE { [i \in 1..n |-> Rat(0, 1)] }

\* create_rand_month: the arrays it can return
create_rand_month(xk, pk, n) ==
  LET xk_multi == [k \in 1..Len(xk) |-> RatMul(xk[k], Rat(multi, 1))]
  IN  IF SumSeq(pk) # 0 /\ SumSeq(pk) > 0
      THEN { [i \in 1..n |-> RatDiv(r[i], Rat(multi, 1))] : r \in rvs(xk_multi, pk, n) }
      ELSE { [i \in 1..n |-> Rat(0, 1)] }

\* any(rand_days_list)
any(list) == \E i \in 1..Len(list) : list[i] # Rat(0, 1)

\* A variant of the renormalisation that divides by the sum of the days.
renormalise_by_sum(list, gh) ==
  IF any(list)
  THEN LET ratio == RatDiv(gh, RatSum(list))
       IN  [i \in 1..Len(list) |-> RatMul(list[i], ratio)]
  ELSE list

\* Lines 176-177
renormalise(list, gh) ==
  IF any(list)
  THEN LET ratio == RatDiv(gh, RatMean(list))
       IN  [i \in 1..Len(list) |-> RatMul(list[i], ratio)]
  ELSE list

\* Lines 178-179: pd.date_range(start='{year}-{start_month}-01', periods=..., freq='D'),
\* consecutive days from the first of the start month
date_range(year, start_month, periods) ==
  [start |-> << year, start_month, 1 >>, periods |-> periods]

\* Inputs: the bins of the distributions and the probabilities of a month.
XkBins == << Rat(0, 1), Rat(5, 2), Rat(4, 1) >>
PkSingle == << 0, 0, 1 >>
PkWide == << 1, 0, 3 >>
PkZeroOnly == << 2, 0, 0 >>
PkDegenerate == << 0, 0, 0 >>
PdfTables ==
  { [m \in 1..12 |-> [xk |-> XkBins, pk |-> IF m = 1 THEN PkWide ELSE PkSingle]],
    [m \in 1..12 |-> [xk |-> XkBins, pk |-> PkDegenerate]],
    [m \in 1..12 |-> [xk |-> XkBins,
                      pk |-> IF m = 2 THEN PkWide
                             ELSE IF m = 12 THEN PkDegenerate ELSE PkSingle]],
    [m \in 1..12 |-> [xk |-> XkBins, pk |-> PkZeroOnly]] }
GlobalPeriod == {0, 6}
PfYears == {2003, 2004}

\* The rows of df: n periods in a row from (year, month).  With frequency S
\* the rows are those df.resample(rule='QS-DEC').bfill() leaves (lines 152-153).
period_rows(frequency, year, month, gh) ==
  [j \in 1..Len(gh) |->
     LET m0 == (month - 1) + (j - 1) * n_months(frequency)
     IN  [year |-> year + m0 \div 12, month |-> (m0 % 12) + 1,
          global_horizontal |-> Rat(gh[j], 1)]]

PfInit ==
  /\ pf_pc = "row"
  /\ pf_frequency \in {"M", "S", "A"}
  /\ ds_pdfs \in PdfTables
  /\ \E year \in PfYears, month \in {1, 2, 12}, n \in 1..MaxPeriods :
       /\ pf_frequency = "A" => month = 1
       /\ pf_frequency = "S" => month = 12
       /\ pf_frequency = "M" => month \in {1, 2}
       /\ \E gh \in [1..n -> GlobalPeriod] :
            pf_df = period_rows(pf_frequency, year, month, gh)
  /\ pf_j = 1 /\ pf_months = << >> /\ rand_days_list = << >>
  /\ any_rand_days = << >> /\ time_index = << >> /\ df_all = << >>
  /\ SaIdle /\ ApIdle /\ RmIdle /\ DnIdle /\ MoreIdle

\* Lines 157-167: the next row of df, its months; after the last row the
\* frame goes to add_kd_run_gsee.
PfRow ==
  /\ pf_pc = "row"
  /\ IF pf_j > Len(pf_df)
     THEN pf_pc' = "done" /\ UNCHANGED << pf_months, rand_days_list >>
     ELSE /\ pf_months' = row_months(pf_df[pf_j].month, pf_frequency)
          /\ rand_days_list' = << >>
          /\ pf_pc' = "month"
  /\ UNCHANGED << pf_frequency, pf_df, ds_pdfs, pf_j, any_rand_days, time_index,
                  df_all, pfOthers >>

\* Lines 168-175: the days of one month are drawn and appended.
PfMonth ==
  /\ pf_pc = "month"
  /\ LET mon == Head(pf_months)
         days == monthrange_days(pf_df[pf_j].year, mon)
     IN  \E rand_days \in create_rand_month(ds_pdfs[mon].xk, ds_pdfs[mon].pk, days) :
           rand_days_list' = rand_days_list \o rand_days
  /\ pf_months' = Tail(pf_months)
  /\ pf_pc' = IF pf_months' = << >> THEN "renorm" ELSE "month"
  /\ UNCHANGED << pf_frequency, pf_df, ds_pdfs, pf_j, any_rand_days, time_index,
                  df_all, pfOthers >>

\* Lines 176-187: the renormalisation and the row's frame, added to df_all.
PfRenormalise ==
  /\ pf_pc = "renorm"
  /\ \E list \in {renormalise(rand_days_list, pf_df[pf_j].global_horizontal)} :
       df_all' = Append(df_all, list)
  /\ any_rand_days' = Append(any_rand_days, any(rand_days_list))
  /\ time_index' = Append(time_index,
                          date_range(pf_df[pf_j].year, pf_df[pf_j].month,
                                     Len(rand_days_list)))
  /\ pf_j' = pf_j + 1
  /\ pf_pc' = "row"
  /\ UNCHANGED << pf_frequency, pf_df, ds_pdfs, pf_months, rand_days_list, pfOthers >>

PfNext ==
  \/ PfRow
  \/ PfMonth
  \/ PfRenormalise

SpecPdf == PfInit /\ [][PfNext]_vars

\* the months of row j all have sum(pk) > 0
NonDegenerate(j) ==
  \A k \in 1..n_months(pf_frequency) :
    SumSeq(ds_pdfs[row_months(pf_df[j].month, pf_frequency)[k]].pk) > 0

\* C10 as stated: for every coarse period whose month distributions are
\* non-degenerate (sum(pk) > 0), the mean of the sampled days after the
\* renormalisation is the period's input global_horizontal.  Each period is
\* looked at when its frame has just been added to df_all.
C10_mean_preserved_nondegenerate ==
  (pf_pc = "row" /\ df_all # << >>) =>
    LET j == Len(df_all)
    IN  NonDegenerate(j) => RatMean(df_all[j]) = pf_df[j].global_horizontal

\* C10, amended: for every coarse period in which at least one sampled day is
\* not zero, the mean of the days after the renormalisation is the period's
\* input global_horizontal; a period whose sampled days are all zero keeps
\* them at zero.
C10_mean_preserved_when_any_nonzero ==
  (pf_pc = "row" /\ df_all # << >>) =>
    LET j == Len(df_all)
    IN  IF any_rand_days[j]
        THEN RatMean(df_all[j]) = pf_df[j].global_horizontal
        ELSE \A i \in 1..Len(df_all[j]) : df_all[j][i] = Rat(0, 1)

C10_witness ==
  /\ pf_pc = "row" /\ pf_frequency = "S" /\ Len(df_all) = 1
  /\ any_rand_days[1] /\ pf_df[1].global_horizontal = Rat(6, 1)
  /\ NonDegenerate(1)
  /\ \E i \in 1..Len(df_all[1]) : df_all[1][i] = Rat(0, 1)
  /\ \E i \in 1..Len(df_all[1]) : df_all[1][i] # rand_days_list[i]

RECURSIVE CalendarDays(_, _, _)
CalendarDays(year, mon, n) ==
  IF n = 0 THEN 0
  ELSE monthrange_days(year, mon)
       + (IF mon = 12 THEN CalendarDays(year + 1, 1, n - 1)
          ELSE CalendarDays(year, mon + 1, n - 1))

\* C12: for monthly, seasonal and annual input the daily sequence built for a
\* period holds exactly one value for every calendar day of the period (1, 3
\* or 12 months in a row from the start month), on consecutive dates from the
\* first day of the start month, for every start month and year, periods that
\* cross a year boundary or hold a February included.
C12_one_value_per_calendar_day ==
  (pf_pc = "row" /\ df_all # << >>) =>
    LET j == Len(df_all)
    IN  /\ time_index[j].start = << pf_df[j].year, pf_df[j].month, 1 >>
        /\ time_index[j].periods = Len(df_all[j])
        /\ Len(df_all[j]) = CalendarDays(pf_df[j].year, pf_df[j].month,
                                         n_months(pf_frequency))

(***************************************************************************)
(* decimal_hours called on its own.                                        *)
(***************************************************************************)
DhMinutes == {0, 1, 12, 15, 30, 48, 59}
DhSeconds == {0, 59}
DhTimes == {None} \cup {Some(hms(h, m, sec)) : h \in 0..23, m \in DhMinutes, sec \in DhSeconds}

DhInit ==
  /\ dh_pc = "start"
  /\ dh_timeobject \in DhTimes
  /\ dh_rise_or_set \in {"sunrise", "sunset", "noon"}
  /\ dh_ret = 0
  /\ SaIdle /\ ApIdle /\ RmIdle /\ DnIdle /\ PfIdle /\ PnIdle /\ BrIdle /\ ItfIdle

\* Lines 349-360: the assertion on rise_or_set, then the value.
DhCall ==
  /\ dh_pc = "start"
  /\ IF dh_rise_or_set \notin {"sunrise", "sunset"}
     THEN dh_pc' = "raised" /\ UNCHANGED dh_ret
     ELSE dh_pc' = "done" /\ dh_ret' = decimal_hours(dh_timeobject, dh_rise_or_set)
  /\ UNCHANGED << dh_timeobject, dh_rise_or_set, dhOthers >>

DhNext == DhCall

SpecDecimalHours == DhInit /\ [][DhNext]_vars

\* C13: decimal_hours returns hour + minute/60 for any time that is not null
\* (here to the thousandth of an hour below it), a value in [0, 24) whose
\* integer part is the hour of the time; it returns 0.0 for a null sunrise and
\* 23.999 for a null sunset.
C13_decimal_hours_value ==
  dh_pc = "done" =>
    IF dh_timeobject # None
    THEN LET t == dh_timeobject[1]
             minutes == (t % Day) \div 60
         IN  /\ 60 * dh_ret <= 1000 * minutes /\ 1000 * minutes < 60 * (dh_ret + 1)
             /\ dh_ret >= 0 /\ dh_ret < 24 * 1000
             /\ dh_ret \div 1000 = (t % Day) \div 3600
    ELSE /\ dh_rise_or_set = "sunrise" => dh_ret = 0
         /\ dh_rise_or_set = "sunset" => dh_ret = 23999

C13_witness ==
  /\ dh_pc = "done" /\ dh_timeobject = Some(hms(20, 48, 59))
  /\ dh_rise_or_set = "sunset" /\ dh_ret = 20800

(***************************************************************************)
(* More properties of sun_angles, under SpecSunAngles.                     *)
(***************************************************************************)
\* C14: in instantaneous mode each timestamp is classified so: in the hour of
\* that day's sunrise the duration is 60 - minutes - seconds/60 of the rise
\* time and the sun position is evaluated at rise time + duration/2; in the
\* hour of that day's sunset the duration is minutes + seconds/60 of the set
\* time and the position is evaluated at the hour start + duration/2; in every
\* other hour the position is evaluated at the hour start + 30 minutes with
\* duration 60, or with altitude 0, azimuth 0 and duration 0 when the altitude
\* there is negative.  Stated of every row the loop has appended.
C14_instantaneous_classification ==
  (irradiance_type = "instantaneous" /\ sa_pc \in {"loop", "frame", "done"}) =>
    \A i \in 1..Len(durations) :
      LET item == datetime_index[i]
          rise == rise_set_times[1][item \div Day][1]
          set == rise_set_times[1][item \div Day][2]
          start == item - (item % 3600)
      IN  IF rise # None /\ rise[1] \div 3600 = item \div 3600
          THEN /\ durations[i] = 3600 - (rise[1] % 3600)
               /\ obs_dates[i] = << rise[1] + durations[i] \div 2 >>
          ELSE IF set # None /\ set[1] \div 3600 = item \div 3600
          THEN /\ durations[i] = set[1] % 3600
               /\ obs_dates[i] = << start + durations[i] \div 2 >>
          ELSE /\ obs_dates[i] = << start + 1800 >>
               /\ \/ durations[i] = 3600 /\ alts[i] >= 0
                  \/ durations[i] = 0 /\ alts[i] = 0 /\ azims[i] = 0

C14_witness ==
  /\ sa_pc = "done" /\ irradiance_type = "instantaneous"
  /\ datetime_index = << hms(6, 0, 0), hms(7, 0, 0) >>
  /\ rise_set_times[1][0] = << Some(hms(6, 59, 30)), Some(hms(18, 0, 40)) >>
  /\ durations = << 30, 3600 >>
  /\ obs_dates = << << hms(6, 59, 45) >>, << hms(7, 30, 0) >> >>

C16_output_within_capacity ==
  (entry = "run_model" /\ rm_pc = "done") =>
    /\ ac_out_final >= 0
    /\ ac_out_final <= capacity

\* C17: in the inverter stage the AC output is 0 whenever the DC input is 0,
\* never exceeds the inverter's AC capacity and is never negative, the DC
\* input being within [0, capacity].
C17_inverter_output ==
  (entry = "run_model" /\ rm_pc = "done" /\ use_inverter) =>
    /\ dc_out >= 0 /\ dc_out <= capacity
    /\ dc_out = 0 => ac_out = 0
    /\ ac_out <= (IF inverter_capacity = None THEN capacity ELSE inverter_capacity[1])
    /\ ac_out >= 0

\* The panel at its capacity on an inverter of half the capacity: the output
\* is held at the inverter's AC capacity.
C17_witness ==
  /\ entry = "run_model" /\ rm_pc = "done" /\ use_inverter
  /\ capacity = 1000 /\ dc_out = 1000
  /\ inverter_capacity = Some(500) /\ ac_out = 500

(***************************************************************************)
(* brl_model.run and _daily_diffuse (gsee/brl_model.py).                   *)
(***************************************************************************)
MaxClearnessDays == 2

\* ks[i] of a Python list: a negative i counts from the end.  The caller
\* checks InRange first; outside it Python raises IndexError.
InRange(list, i) == i < Len(list) /\ i >= -Len(list)
item(list, i) == IF i < 0 THEN list[Len(list) + i + 1] ELSE list[i + 1]

\* Lines 38-45: sunrise.hour and sunset.hour, 0 and 23 on AttributeError
sunrise_hour(sunrise) == IF IsNone(sunrise) THEN 0 ELSE hour(Get(sunrise))
sunset_hour(sunset) == IF IsNone(sunset) THEN 23 ELSE hour(Get(sunset))

\* np.isnan
isnan(x) == x.nan

\* (a + b) / 2
half_sum(a, b) == IF a.nan \/ b.nan THEN NaN ELSE F((a.v + b.v) \div 2)

\* Lines 47-72: the function f(hour, ks) that _get_psi_func returns
psi_f(sunrise, sunset, hr, list) ==
  IF hr > sunrise_hour(sunrise) /\ hr < sunset_hour(sunset)
  THEN LET psi == half_sum(item(list, hr - 1), item(list, hr + 1))
       IN  IF isnan(psi)
           THEN IF isnan(item(list, hr - 1)) THEN item(list, hr + 1)
                ELSE item(list, hr - 1)
           ELSE psi
  ELSE IF hr = sunrise_hour(sunrise)
  THEN IF InRange(list, hr + 1) THEN item(list, hr + 1) ELSE item(list, hr)
  ELSE IF hr = sunset_hour(sunset)
  THEN IF InRange(list, hr - 1) THEN item(list, hr - 1) ELSE item(list, hr)
  ELSE F(0)

\* Lines 77-82: DEFAULT_PARAMS, in ten-thousandths
DEFAULT_PARAMS == [a0 |-> -53200, a1 |-> 72800, b1 |-> -300, b2 |-> -47,
                   b3 |-> 17200, b4 |-> 10800]

\* pd.Series(ks).mean(): the mean of the values that are not NaN
series_mean(list) ==
  LET present == {j \in 1..Len(list) : ~list[j].nan}
      Sum[n \in 0..Len(list)] ==
        IF n = 0 THEN 0
        ELSE Sum[n - 1] + (IF list[n].nan THEN 0 ELSE list[n].v)
  IN  IF present = {} THEN NaN ELSE F(Sum[Len(list)] \div Cardinality(present))

\* 1000 / (1 + e^(i / 2)) for i = -16 .. 16
LogisticTable ==
  << 1000, 999, 999, 998, 998, 996, 993, 989, 982, 971, 953, 924, 881, 818, 731,
     622, 500, 378, 269, 182, 119, 76, 47, 29, 18, 11, 7, 4, 2, 2, 1, 1, 0 >>

\* Line 121: d = 1 / (1 + math.e ** pwr), pwr in millionths, in thousandths
logistic(pwr) ==
  IF pwr.nan THEN NaN
  ELSE LET i == (2 * pwr.v + 500000) \div 1000000
       IN  F(LogisticTable[(IF i < -16 THEN -16 ELSE IF i > 16 THEN 16 ELSE i) + 17])

\* _solartime(obs, sun) at an hour of the day: an ephem angle, 2 pi for 24
\* hours, in hundredths of a radian
solartime(offset, hr) == (((hr + offset) % 24) * 2618) \div 100

\* Lines 117-121: the diffuse fraction of one hour whose clearness index is
\* present
hour_diffuse(p, k, ast, alt, kd, psi) ==
  IF kd.nan \/ psi.nan THEN NaN
  ELSE logistic(F(p.a0 * Scale + p.a1 * k.v + p.b1 * ast + p.b2 * alt
                    + p.b3 * kd.v + p.b4 * psi.v))

\* The inputs: a profile of clearness indices with some hours missing, and
\* the hours of sunrise and sunset.
Clearness(t) == F(20 + 2 * ((7 * t) % 30))
MissingHours ==
  { {},
    {t \in 1..(24 * MaxClearnessDays) : (t - 1) % 24 < 6 \/ (t - 1) % 24 > 18},
    {12, 14},
    {14} }
ClearnessSeries ==
  { [t \in 1..(24 * n) |-> IF t \in missing THEN NaN ELSE Clearness(t)] :
      n \in 1..MaxClearnessDays, missing \in MissingHours }
RiseSetPairs ==
  { << Some(hms(6, 30, 0)), Some(hms(18, 10, 0)) >>,
    << Some(hms(20, 15, 0)), Some(hms(8, 40, 0)) >>,
    << Some(hms(5, 20, 0)), Some(hms(0, 45, 0)) >>,
    << None, None >> }
SolarOffsets == {0, 10}
MidnightAlts == {-80, 20}
DaytimeAlts == {20, 100}

\* The pairs of the calendar days of a series of n days: the same pair on
\* every day, or a second day that differs from the first.
DayPairs(n) ==
  {[d \in 1..n |-> pair] : pair \in RiseSetPairs}
    \cup {[d \in 1..n |-> IF d = 2 THEN << Some(hms(5, 20, 0)), Some(hms(0, 45, 0)) >>
                                   ELSE << Some(hms(6, 30, 0)), Some(hms(18, 10, 0)) >>]}

\* pre_gsee_processing.py line 58: tmp_df_kd['rise_set'].tolist(), the column
\* of the hourly frame, which holds for every hour the pair of its day
rise_set_column(pairs) == [t \in 1..(24 * Len(pairs)) |-> pairs[(t - 1) \div 24 + 1]]

BrInit ==
  /\ br_pc = "start"
  /\ hourly_clearness \in ClearnessSeries
  /\ br_day_pairs \in DayPairs(Len(hourly_clearness) \div 24)
  /\ \/ /\ br_caller = "direct"
        /\ br_rise_set_times \in {None, Some(br_day_pairs)}
     \/ /\ br_caller = "add_kd_run_gsee"
        /\ br_rise_set_times = Some(rise_set_column(br_day_pairs))
  /\ br_sunrise = None /\ br_sunset = None /\ sun_altitude = 0 /\ alphas = << >>
  /\ br_offset \in SolarOffsets
  /\ br_i = 0 /\ ks = << >> /\ alpha = 0 /\ k_day = NaN
  /\ br_hour = 0 /\ values = << >> /\ psis = << >> /\ diffuse_fractions = << >>
  /\ br_error = "none"
  /\ SaIdle /\ ApIdle /\ RmIdle /\ DnIdle /\ PfIdle /\ DhIdle /\ PnIdle /\ ItfIdle

\* Lines 148-152: the observer; without rise_set_times the table is asked of
\* trigon._sun_rise_set, a name the module trigon does not define.
BrBegin ==
  /\ br_pc = "start"
  /\ IF IsNone(br_rise_set_times)
     THEN br_pc' = "raised" /\ br_error' = "AttributeError"
     ELSE br_pc' = "day" /\ UNCHANGED br_error
  /\ UNCHANGED << hourly_clearness, br_rise_set_times, br_caller, br_day_pairs,
                  br_sunrise, br_sunset, sun_altitude, alphas, br_offset, br_i, ks,
                  alpha, k_day, br_hour, values, psis, diffuse_fractions, brOthers >>

\* Lines 154-160 and 103-112: the day's slice, then the start of
\* _daily_diffuse: the sun's altitude at hour 0 and the day's mean.
BrDay ==
  /\ br_pc = "day"
  /\ br_i < Len(hourly_clearness)
  /\ ks' = SubSeq(hourly_clearness, br_i + 1, br_i + 24)
  /\ br_sunrise' = item(Get(br_rise_set_times), br_i \div 24)[1]
  /\ br_sunset' = item(Get(br_rise_set_times), br_i \div 24)[2]
  /\ sun_altitude' \in MidnightAlts
  /\ alpha' = sun_altitude'
  /\ k_day' = series_mean(ks')
  /\ br_hour' = 0
  /\ values' = << >>
  /\ br_pc' = "hour"
  /\ UNCHANGED << hourly_clearness, br_rise_set_times, br_caller, br_day_pairs,
                  alphas, br_offset, br_i, psis, diffuse_fractions, br_error,
                  brOthers >>

\* Lines 113-125: one iteration of the loop over range(24); it ends with
\* sun.compute(obs) for the next hour.
BrHour ==
  /\ br_pc = "hour"
  /\ br_hour < 24
  /\ LET psi == psi_f(br_sunrise, br_sunset, br_hour, ks)
     IN  IF isnan(item(ks, br_hour))
         THEN /\ values' = Append(values, NaN)
              /\ psis' = Append(psis, None)
              /\ alphas' = Append(alphas, None)
         ELSE /\ values' = Append(values,
                             hour_diffuse(DEFAULT_PARAMS, item(ks, br_hour),
                                          solartime(br_offset, br_hour), alpha,
                                          k_day, psi))
              /\ psis' = Append(psis, Some(psi))
              /\ alphas' = Append(alphas, Some(alpha))
  /\ br_hour' = br_hour + 1
  /\ sun_altitude' \in DaytimeAlts
  /\ UNCHANGED << br_pc, hourly_clearness, br_rise_set_times, br_caller, br_day_pairs,
                  br_sunrise, br_sunset, br_offset, br_i, ks, alpha, k_day,
                  diffuse_fractions, br_error, brOthers >>

\* Lines 126 and 160-161: _daily_diffuse returns, run extends its list.
BrExtend ==
  /\ br_pc = "hour"
  /\ br_hour = 24
  /\ diffuse_fractions' = diffuse_fractions \o values
  /\ br_i' = br_i + 24
  /\ br_pc' = "day"
  /\ UNCHANGED << hourly_clearness, br_rise_set_times, br_caller, br_day_pairs,
                  br_sunrise, br_sunset, sun_altitude, alphas, br_offset, ks, alpha,
                  k_day, br_hour, values, psis, br_error, brOthers >>

\* Line 162: the series returned.
BrReturn ==
  /\ br_pc = "day"
  /\ br_i >= Len(hourly_clearness)
  /\ br_pc' = "done"
  /\ UNCHANGED << hourly_clearness, br_rise_set_times, br_caller, br_day_pairs,
                  br_sunrise, br_sunset, sun_altitude, alphas, br_offset, br_i, ks,
                  alpha, k_day, br_hour, values, psis, diffuse_fractions, br_error,
                  brOthers >>

BrNext ==
  \/ BrBegin
  \/ BrDay
  \/ BrHour
  \/ BrExtend
  \/ BrReturn

SpecBrl == BrInit /\ [][BrNext]_vars

\* C18: brl_model.run returns one value per input hour; the value is NaN for
\* every hour whose clearness index is NaN, and a number in [0, 1] for every
\* hour whose clearness index is present, whatever the clearness indices of
\* the neighbouring hours are.
C18_fraction_per_hour ==
  /\ br_pc = "done" => Len(diffuse_fractions) = Len(hourly_clearness)
  /\ \A t \in 1..Len(diffuse_fractions) :
       IF hourly_clearness[t].nan
       THEN diffuse_fractions[t].nan
       ELSE /\ ~diffuse_fractions[t].nan
            /\ diffuse_fractions[t].v >= 0 /\ diffuse_fractions[t].v <= 1000

\* The hours strictly between sunrise and sunset, and the hours of daylight,
\* for a day whose daylight may span midnight UTC.
StrictlyBetween(h, rise_h, set_h) ==
  IF rise_h <= set_h THEN h > rise_h /\ h < set_h ELSE h > rise_h \/ h < set_h

\* C19: for each hour h of a day psi is the mean of the clearness indices of
\* the hours h-1 and h+1 when h lies strictly between sunrise and sunset (the
\* non-NaN one of the two when one is NaN), the clearness index of hour h+1
\* at the sunrise hour and of hour h-1 at the sunset hour, and 0 only outside
\* daylight, for every pair of sunrise and sunset hours, daylight that spans
\* midnight UTC and a sunset in hour 0 included.  The hours h-1 and h+1 are
\* hours of the series; stated of the hours that have both in the series.
C19_psi_rules ==
  \A t \in 2..Len(psis) :
    LET pair == br_day_pairs[(t - 1) \div 24 + 1]
        h == (t - 1) % 24
        before == hourly_clearness[t - 1]
        after == hourly_clearness[t + 1]
    IN  (t < Len(hourly_clearness) /\ psis[t] # None
         /\ pair[1] # None /\ pair[2] # None) =>
          LET rise_h == pair[1][1] \div 3600
              set_h == pair[2][1] \div 3600
          IN  IF StrictlyBetween(h, rise_h, set_h)
              THEN psis[t][1] = (IF before.nan THEN after
                                 ELSE IF after.nan THEN before
                                 ELSE F((before.v + after.v) \div 2))
              ELSE IF h = rise_h THEN psis[t][1] = after
              ELSE IF h = set_h THEN psis[t][1] = before
              ELSE psis[t][1] = F(0)

\* C20: brl_model.run called without rise_set_times computes the table itself
\* and returns the diffuse-fraction series; the omitted argument is not an
\* error.
C20_rise_set_times_optional ==
  br_rise_set_times = None =>
    /\ br_pc # "raised" /\ br_error = "none"
    /\ br_pc = "done" => Len(diffuse_fractions) = Len(hourly_clearness)

\* C28: in _daily_diffuse the sun-altitude term of hour h is taken from the
\* sun position at hour h of the day, as the solar-time term is: every hour
\* whose clearness index is a number enters the altitude the sun object
\* holds at that hour.
C28_altitude_per_hour ==
  [][(br_pc = "hour" /\ br_hour' = br_hour + 1 /\ ~isnan(item(ks, br_hour)))
       => alphas' = Append(alphas, Some(sun_altitude))]_vars

\* C29: run works through the series in consecutive blocks of 24 hours and
\* takes, for the k-th block, the sunrise/sunset pair of the k-th calendar
\* day of the series, whether called directly with one pair per day or
\* from add_kd_run_gsee with the rise_set column of the hourly frame.
C29_block_uses_day_pair ==
  br_pc = "hour" =>
    /\ br_i % 24 = 0
    /\ ks = SubSeq(hourly_clearness, br_i + 1, br_i + 24)
    /\ << br_sunrise, br_sunset >> = br_day_pairs[br_i \div 24 + 1]

\* C30: in cumulative mode with subres_steps = N every time step is sampled
\* at N instants that are timestep / N apart (15 minutes apart when
\* subres_steps is not given), at least one instant is sampled per step, and
\* a sample whose zenith exceeds 89 degrees contributes 0 to the step mean.
C30_substep_instants ==
  irradiance_type = "cumulative" =>
    /\ \A i \in 1..Len(one_over_cos_zenith) :
         LET instants == Tail(obs_dates[i])
             timestep == datetime_index[2] - datetime_index[1]
         IN  /\ Len(instants) >= 1
             /\ Len(instants) = subres_steps
             /\ \A k \in 1..(Len(instants) - 1) :
                  instants[k + 1] - instants[k] = timestep \div subres_steps
    /\ (sa_pc = "substeps" /\ tmp_one_over_cos # << >> /\ 90 - sun_alt > 89)
         => tmp_one_over_cos[Len(tmp_one_over_cos)] = 0

(***************************************************************************)
(* _detect_frequency (gsee/climatedata_interface/interface.py, 198-245).   *)
(***************************************************************************)
FrequencyCodes == {"A", "S", "M", "D", "H"}

\* The frequency strings of a dataset: the attribute written by climate
\* models, and the offset aliases pandas infers from a regular time axis.
AttrFrequencies == {"year", "mon", "day", "6hr"}
InferredFreqs == {"A-DEC", "AS-JAN", "QS-DEC", "M", "MS", "D", "H"}

\* inferred_freq of an axis pandas cannot infer from (fewer than three
\* timestamps): the property raises ValueError
InferenceRaises == << "raises", "ValueError" >>

\* Lines 217-245.  The result is the value returned or the exception raised.
\* nc_freq is left unbound when the key is missing and the inference raises
\* (the bare except passes), and the test of nc_freq then fails.
detect_frequency(attr, inferred, infreq) ==
  IF IsNone(attr) /\ inferred = InferenceRaises
  THEN [raised |-> "UnboundLocalError", value |-> None]
  ELSE LET nc_freq == IF ~IsNone(attr) THEN attr ELSE inferred
           data_freq ==
             IF IsNone(nc_freq) THEN infreq
             ELSE IF Get(nc_freq) = "year" THEN "A"
             ELSE IF Get(nc_freq) = "mon" THEN "M"
             ELSE IF Get(nc_freq) = "day" THEN "D"
             ELSE Get(nc_freq)
       IN  IF data_freq \in FrequencyCodes /\ infreq # data_freq /\ infreq # "detect"
           THEN [raised |-> "Warning", value |-> None]
           ELSE IF data_freq \notin FrequencyCodes
           THEN [raised |-> "ValueError", value |-> None]
           ELSE [raised |-> "none", value |-> Some(data_freq)]

DfInit ==
  /\ df_pc = "start"
  /\ attrs_frequency \in {None} \cup {Some(f) : f \in AttrFrequencies}
  /\ inferred_freq \in {None, InferenceRaises} \cup {Some(f) : f \in InferredFreqs}
  /\ in_freq \in FrequencyCodes \cup {"detect", "Q"}
  /\ df_ret = None /\ df_error = "none"
  /\ MtIdle /\ ClIdle /\ RiIdle
  /\ SaIdle /\ ApIdle /\ RmIdle /\ DnIdle /\ PfIdle /\ DhIdle /\ PnIdle /\ BrIdle

DetectFrequency ==
  /\ df_pc = "start"
  /\ LET r == detect_frequency(attrs_frequency, inferred_freq, in_freq)
     IN  /\ df_pc' = IF r.raised = "none" THEN "done" ELSE "raised"
         /\ df_ret' = r.value
         /\ df_error' = r.raised
  /\ UNCHANGED << attrs_frequency, inferred_freq, in_freq, mtVars, clVars, riVars, itfOthers >>

SpecDetectFrequency == DfInit /\ [][DetectFrequency]_vars

\* The frequency a frequency string of the dataset stands for.
frequency_of(f) ==
  IF f \in {"year", "A-DEC", "AS-JAN"} THEN Some("A")
  ELSE IF f = "QS-DEC" THEN Some("S")
  ELSE IF f \in {"mon", "M", "MS"} THEN Some("M")
  ELSE IF f \in {"day", "D"} THEN Some("D")
  ELSE IF f = "H" THEN Some("H")
  ELSE None

\* The frequency detected from the dataset: of the attribute when there is
\* one, else of the inferred string.
detected ==
  IF ~IsNone(attrs_frequency) THEN frequency_of(Get(attrs_frequency))
  ELSE IF inferred_freq \in {None, InferenceRaises} THEN None
  ELSE frequency_of(Get(inferred_freq))

\* C26: _detect_frequency never returns a value outside the five codes; it
\* returns the code when the user's code is the frequency detected from the
\* dataset (S for a QS-DEC index included) or when 'detect' is given and a
\* frequency is detected; it raises when a detected frequency differs from a
\* valid user code.
C26_detect_frequency ==
  df_pc \in {"done", "raised"} =>
    /\ ~IsNone(df_ret) => Get(df_ret) \in FrequencyCodes
    /\ (~IsNone(detected) /\ in_freq \in {Get(detected), "detect"})
         => (df_pc = "done" /\ df_ret = detected)
    /\ (~IsNone(detected) /\ in_freq \in FrequencyCodes /\ in_freq # Get(detected))
         => df_pc = "raised"

(***************************************************************************)
(* _mod_time_dim (gsee/climatedata_interface/interface.py, 65-91).         *)
(***************************************************************************)
Timestamp(y, mo, d, h, mi) == [year |-> y, month |-> mo, day |-> d, hour |-> h, minute |-> mi]

\* Lines 80-91: time_dim.map(...) for A, S, M and D; no branch returns for
\* any other frequency, so the function falls off its end and returns None.
mod_time_dim(tdim, freq) ==
  IF freq = "A"
  THEN Some([k \in 1..Len(tdim) |-> Timestamp(tdim[k].year, 1, 1, 0, 0)])
  ELSE IF freq \in {"S", "M"}
  THEN Some([k \in 1..Len(tdim) |->
               Timestamp(tdim[k].year, tdim[k].month,
                         monthrange_days(tdim[k].year, tdim[k].month) \div 2, 0, 0)])
  ELSE IF freq = "D"
  THEN Some([k \in 1..Len(tdim) |->
               Timestamp(tdim[k].year, tdim[k].month, tdim[k].day, 0, 0)])
  ELSE None

\* Inputs.
MaxStamps == 2
Stamps ==
  {Timestamp(y, mo, d, h, mi) :
     y \in {2000, 2001}, mo \in {2, 5}, d \in {18, 28}, h \in {0, 13}, mi \in {0, 30}}
TimeDims == UNION {[1..n -> Stamps] : n \in 1..MaxStamps}

MtInit ==
  /\ mt_pc = "start"
  /\ time_dim \in TimeDims
  /\ mt_freq \in FrequencyCodes
  /\ mt_ret = None
  /\ DfIdle /\ ClIdle /\ RiIdle
  /\ SaIdle /\ ApIdle /\ RmIdle /\ DnIdle /\ PfIdle /\ DhIdle /\ PnIdle /\ BrIdle

ModTimeDim ==
  /\ mt_pc = "start"
  /\ mt_ret' = mod_time_dim(time_dim, mt_freq)
  /\ mt_pc' = "done"
  /\ UNCHANGED << time_dim, mt_freq, dfVars, clVars, riVars, itfOthers >>

SpecModTimeDim == MtInit /\ [][ModTimeDim]_vars

\* C27: for each of the five frequencies _mod_time_dim returns a time index
\* with one entry per input entry: annual stamps at 1 January 00:00 of their
\* year, seasonal and monthly stamps at day floor(days_in_month / 2), which
\* is 14 or 15, at 00:00 of their month, daily stamps at 00:00 of their day,
\* hourly stamps as they were.
C27_mod_time_dim ==
  mt_pc = "done" =>
    /\ ~IsNone(mt_ret)
    /\ Len(Get(mt_ret)) = Len(time_dim)
    /\ \A k \in 1..Len(time_dim) :
         LET x == time_dim[k]
             r == Get(mt_ret)[k]
         IN  /\ mt_freq = "A" => r = Timestamp(x.year, 1, 1, 0, 0)
             /\ mt_freq \in {"S", "M"} =>
                  /\ r.day \in {14, 15}
                  /\ r = Timestamp(x.year, x.month,
                                   monthrange_days(x.year, x.month) \div 2, 0, 0)
             /\ mt_freq = "D" => r = Timestamp(x.year, x.month, x.day, 0, 0)
             /\ mt_freq = "H" => r = x

(***************************************************************************)
(* The grid-cell tasks: resample_for_gsee, _resample_without_pdfs,         *)
(* _resample_with_pdfs, add_kd_run_gsee and return_pv                      *)
(* (gsee/climatedata_interface/pre_gsee_processing.py).                    *)
(***************************************************************************)
MaxCells == 2

\* example_file.py: the tilt as a function of latitude, in whole degrees
tilt_function(lat) == (35 * lat) \div 100 + 17

\* Lines 110-111: the tilt a call finds in its params object
evaluated_tilt(tlt, lat) == IF tlt.callable THEN tilt_function(lat) ELSE tlt.value

\* Line 58: add_kd_run_gsee assigns the column diffuse_fraction from
\* brl_model.run, whatever the frame held before.
add_kd_run_gsee_diffuse == "brl"

\* Lines 125-146: only hourly data that has the column goes to run_model as
\* it is; every other case goes through add_kd_run_gsee.
resample_without_pdfs_diffuse(freq, has_column) ==
  IF freq = "H" /\ has_column THEN "supplied" ELSE add_kd_run_gsee_diffuse

\* Lines 149-194: df_all is built from global_horizontal and temperature
\* alone and goes through add_kd_run_gsee.
resample_with_pdfs_diffuse == add_kd_run_gsee_diffuse

\* Lines 119-122: where the diffuse_fraction the PV model runs on comes from
diffuse_source(freq, has_column, pdfs) ==
  IF pdfs THEN resample_with_pdfs_diffuse
  ELSE resample_without_pdfs_diffuse(freq, has_column)

\* Lines 388-389: the two operations return_pv makes on the shared lists, in
\* the order of the code; the variant reports progress first.
return_pv_progress_first == << "append", "setitem" >>
return_pv == << "setitem", "append" >>

Cells == 1..Len(cell_lats)

ClInit ==
  /\ cl_mode \in {"sequential", "parallel"}
  /\ cl_frequency \in FrequencyCodes
  /\ has_diffuse_fraction \in BOOLEAN
  /\ with_pdfs \in BOOLEAN
  /\ with_pdfs => cl_frequency \in {"A", "S", "M"}
  /\ cell_lats \in UNION {[1..n -> {0, 47}] : n \in 1..MaxCells}
  /\ tilt_arg \in {[callable |-> TRUE, value |-> 0], [callable |-> FALSE, value |-> 35]}
  /\ params_tilt = tilt_arg
  /\ task_pc = [i \in Cells |-> "wait"]
  /\ task_tilt = [i \in Cells |-> 0]
  /\ task_pv = [i \in Cells |-> None]
  /\ shr_mem = [i \in Cells |-> None]
  /\ prog_mem = << Len(cell_lats) >>
  /\ shr_writes = << >>
  /\ DfIdle /\ MtIdle /\ RiIdle
  /\ SaIdle /\ ApIdle /\ RmIdle /\ DnIdle /\ PfIdle /\ DhIdle /\ PnIdle /\ BrIdle

\* Lines 108-111: the call for cell i.  A callable tilt is replaced, in the
\* params object the call was given, by its value at the cell's latitude.
TaskCall(i) ==
  /\ task_pc[i] = "wait"
  /\ cl_mode = "sequential" => \A j \in 1..(i - 1) : task_pc[j] = "done"
  /\ LET t == evaluated_tilt(params_tilt, cell_lats[i])
     IN  /\ task_tilt' = [task_tilt EXCEPT ![i] = t]
         /\ params_tilt' = IF cl_mode = "sequential"
                           THEN [callable |-> FALSE, value |-> t]
                           ELSE params_tilt
  /\ task_pc' = [task_pc EXCEPT ![i] = "called"]
  /\ UNCHANGED << cl_mode, cl_frequency, has_diffuse_fraction, with_pdfs, cell_lats,
                  tilt_arg, task_pv, shr_mem, prog_mem, shr_writes >>
  /\ UNCHANGED << dfVars, mtVars, riVars, itfOthers >>

\* Lines 113-122 and the bodies of _resample_without_pdfs and
\* _resample_with_pdfs up to return_pv: the pv of the cell.
TaskCompute(i) ==
  /\ task_pc[i] = "called"
  /\ task_pv' = [task_pv EXCEPT ![i] =
                   Some([lat |-> cell_lats[i], tilt |-> task_tilt[i],
                         diffuse |-> diffuse_source(cl_frequency, has_diffuse_fraction,
                                                    with_pdfs)])]
  /\ task_pc' = [task_pc EXCEPT ![i] = "computed"]
  /\ UNCHANGED << cl_mode, cl_frequency, has_diffuse_fraction, with_pdfs, cell_lats,
                  tilt_arg, params_tilt, task_tilt, shr_mem, prog_mem, shr_writes >>
  /\ UNCHANGED << dfVars, mtVars, riVars, itfOthers >>

\* One operation of return_pv on the shared lists: shr_mem[i] = pv.to_xarray()
\* or prog_mem.append(1).
SharedOp(op, i) ==
  IF op = "setitem"
  THEN /\ shr_mem' = [shr_mem EXCEPT ![i] = task_pv[i]]
       /\ shr_writes' = Append(shr_writes, << i, i >>)
       /\ UNCHANGED prog_mem
  ELSE /\ prog_mem' = Append(prog_mem, 1)
       /\ UNCHANGED << shr_mem, shr_writes >>

ReturnPvFirst(i) ==
  /\ task_pc[i] = "computed"
  /\ SharedOp(return_pv[1], i)
  /\ task_pc' = [task_pc EXCEPT ![i] = "returning"]
  /\ UNCHANGED << cl_mode, cl_frequency, has_diffuse_fraction, with_pdfs, cell_lats,
                  tilt_arg, params_tilt, task_tilt, task_pv >>
  /\ UNCHANGED << dfVars, mtVars, riVars, itfOthers >>

ReturnPvSecond(i) ==
  /\ task_pc[i] = "returning"
  /\ SharedOp(return_pv[2], i)
  /\ task_pc' = [task_pc EXCEPT ![i] = "done"]
  /\ UNCHANGED << cl_mode, cl_frequency, has_diffuse_fraction, with_pdfs, cell_lats,
                  tilt_arg, params_tilt, task_tilt, task_pv >>
  /\ UNCHANGED << dfVars, mtVars, riVars, itfOthers >>

ClNext ==
  \E i \in Cells :
    \/ TaskCall(i)
    \/ TaskCompute(i)
    \/ ReturnPvFirst(i)
    \/ ReturnPvSecond(i)

SpecCells == ClInit /\ [][ClNext]_vars

\* C21: the diffuse fraction is estimated by the BRL model only where the
\* input has none: data that carries a diffuse_fraction column is run with
\* the supplied values, at every frequency, with or without PDFs.
C21_supplied_diffuse_fraction ==
  \A i \in Cells :
    ~IsNone(task_pv[i]) =>
      Get(task_pv[i]).diffuse = IF has_diffuse_fraction THEN "supplied" ELSE "brl"

\* C22: with a tilt function and the cells processed one after another on
\* the same params object, every cell is computed with the tilt function's
\* value at the latitude of that cell.
C22_tilt_per_cell ==
  (cl_mode = "sequential" /\ tilt_arg.callable) =>
    \A i \in Cells :
      ~IsNone(task_pv[i]) => Get(task_pv[i]).tilt = tilt_function(cell_lats[i])

\* The number of tasks that have stored their result.
Stored == Cardinality({i \in Cells : ~IsNone(shr_mem[i])})

\* C24: in any interleaving of the tasks, task i writes only slot i and only
\* after its computation, no slot is written by two tasks, the progress
\* count len(prog_mem) - 1 never exceeds the number of tasks that have
\* stored their result and never decreases, and when all tasks have finished
\* the count is the number of tasks and every slot is filled.
C24_shared_lists ==
  /\ [](/\ \A w \in 1..Len(shr_writes) :
             /\ shr_writes[w][1] = shr_writes[w][2]
             /\ \A v \in 1..Len(shr_writes) :
                  shr_writes[v][2] = shr_writes[w][2] => shr_writes[v][1] = shr_writes[w][1]
        /\ \A i \in Cells :
             ~IsNone(shr_mem[i]) =>
               /\ task_pc[i] \in {"returning", "done"}
               /\ shr_mem[i] = task_pv[i]
               /\ Get(shr_mem[i]).lat = cell_lats[i]
        /\ Len(prog_mem) - 1 <= Stored
        /\ (\A i \in Cells : task_pc[i] = "done") =>
             /\ Len(prog_mem) - 1 = Len(cell_lats)
             /\ \A i \in Cells : ~IsNone(shr_mem[i]))
  /\ [][Len(prog_mem') >= Len(prog_mem)]_vars

\* Two tasks in parallel have both finished, the second having stored its
\* result before the first.
C24_witness ==
  /\ cl_mode = "parallel"
  /\ Len(cell_lats) = 2
  /\ \A i \in Cells : task_pc[i] = "done"
  /\ shr_writes = << << 2, 2 >>, << 1, 1 >> >>

(***************************************************************************)
(* run_interface_from_dataset (gsee/climatedata_interface/interface.py,    *)
(* 13-160).  The functions it calls per cell, resample_for_gsee with six   *)
(* parameters and resample_for_gsee_with_pdfs, are imported at line 10     *)
(* from pre_gsee_processing, which holds a later resample_for_gsee with    *)
(* seven parameters and no resample_for_gsee_with_pdfs; the call of a cell *)
(* is modelled by its outcome.                                             *)
(***************************************************************************)
\* The outcomes of the call for one cell: the cell's dataset is stored in
\* its slot of shr_mem, or the computation raises.
CellOutcomes == {"stored", "raises"}

\* Inputs.
RiStamps == {Timestamp(2000, 5, d, h, 0) : d \in {18, 28}, h \in {0, 13}}
RiTimes == UNION {[1..n -> RiStamps] : n \in 1..MaxStamps}

RiInit ==
  /\ ri_pc = "start"
  /\ \E t \in RiTimes : ds_time = Some(t)
  /\ ttime = << >>
  /\ params_data_freq \in FrequencyCodes
  /\ use_pdfs \in BOOLEAN
  /\ num_cores \in {1, 2}
  /\ coord_list \in {[i \in 1..n |-> i] : n \in 1..MaxCells}
  /\ ri_called = {}
  /\ ri_shr_mem = << >>
  /\ ri_raised = 0 /\ ri_error = "none" /\ ds_pv = None
  /\ DfIdle /\ MtIdle /\ ClIdle
  /\ SaIdle /\ ApIdle /\ RmIdle /\ DnIdle /\ PfIdle /\ DhIdle /\ PnIdle /\ BrIdle

\* Lines 94-112: the cells, the copy of the time values, the time axis of ds
\* replaced by what _mod_time_dim returns, and the shared lists.  For hourly
\* data _mod_time_dim returns None; the assignment of None to ds['time']
\* either is refused by xarray, which leaves ds as it was, or goes through.
RiPrepare ==
  /\ ri_pc = "start"
  /\ ttime' = Get(ds_time)
  /\ LET shifted == mod_time_dim(Get(ds_time), params_data_freq)
     IN  \/ /\ ds_time' = shifted
            /\ ri_pc' = "cells"
            /\ ri_shr_mem' = [i \in 1..Len(coord_list) |-> None]
            /\ UNCHANGED ri_error
         \/ /\ IsNone(shifted)
            /\ ri_pc' = "raised" /\ ri_error' = "ValueError"
            /\ UNCHANGED << ds_time, ri_shr_mem >>
  /\ UNCHANGED << params_data_freq, use_pdfs, num_cores, coord_list, ri_called, ri_raised,
                  ds_pv >>
  /\ UNCHANGED << dfVars, mtVars, clVars, itfOthers >>

\* Lines 126 and 142-143
pdfs_refused == use_pdfs /\ params_data_freq \notin {"A", "S", "M"}

\* Lines 142-143: PDFs with daily or hourly data
RiRefuse ==
  /\ ri_pc = "cells" /\ pdfs_refused
  /\ ri_pc' = "raised" /\ ri_error' = "ValueError"
  /\ UNCHANGED << ds_time, ttime, params_data_freq, use_pdfs, num_cores, coord_list,
                  ri_called, ri_shr_mem, ri_raised, ds_pv >>
  /\ UNCHANGED << dfVars, mtVars, clVars, itfOthers >>

\* Lines 115-141: the call for cell i, in the order of coord_list with one
\* core and in any order with several.  Nothing catches what a call raises:
\* the loop, or joblib's Parallel, passes it on to the caller of
\* run_interface_from_dataset.
RiCell(i) ==
  /\ ri_pc = "cells" /\ ~pdfs_refused
  /\ i \notin ri_called
  /\ num_cores = 1 => \A j \in 1..(i - 1) : j \in ri_called
  /\ ri_called' = ri_called \cup {i}
  /\ \E outcome \in CellOutcomes :
       IF outcome = "stored"
       THEN /\ ri_shr_mem' = [ri_shr_mem EXCEPT ![i] = Some(i)]
            /\ UNCHANGED << ri_pc, ri_raised, ri_error >>
       ELSE /\ ri_pc' = "raised" /\ ri_raised' = i /\ ri_error' = "Exception"
            /\ UNCHANGED ri_shr_mem
  /\ UNCHANGED << ds_time, ttime, params_data_freq, use_pdfs, num_cores, coord_list, ds_pv >>
  /\ UNCHANGED << dfVars, mtVars, clVars, itfOthers >>

\* Lines 144-160: the pieces are merged and the result gets the time values
\* copied on entry.
RiStitch ==
  /\ ri_pc = "cells" /\ ~pdfs_refused
  /\ ri_called = 1..Len(coord_list)
  /\ ds_pv' = Some([time |-> Some(ttime),
                     cells |-> {i \in 1..Len(coord_list) : ~IsNone(ri_shr_mem[i])}])
  /\ ri_pc' = "returned"
  /\ UNCHANGED << ds_time, ttime, params_data_freq, use_pdfs, num_cores, coord_list,
                  ri_called, ri_shr_mem, ri_raised, ri_error >>
  /\ UNCHANGED << dfVars, mtVars, clVars, itfOthers >>

RiNext ==
  \/ RiPrepare
  \/ RiRefuse
  \/ \E i \in 1..Len(coord_list) : RiCell(i)
  \/ RiStitch

SpecRunInterface == RiInit /\ [][RiNext]_vars

\* C23: when the computation of one grid cell raises, the other cells are
\* still computed and run_interface_from_dataset returns their results, with
\* one core and with several.
C23_cell_failure_isolated ==
  ri_raised # 0 =>
    /\ ri_pc # "raised"
    /\ ri_pc = "returned" =>
         Get(ds_pv).cells = {i \in 1..Len(coord_list) : i # ri_raised}

\* C25: after run_interface_from_dataset has returned, the time coordinate of
\* the result is that of the caller's dataset ds, and both are the time
\* values the caller passed, not the shifted ones, at every frequency.
C25_time_coordinate_kept ==
  ri_pc = "returned" =>
    /\ Get(ds_pv).time = ds_time
    /\ ds_time = Some(ttime)
====
